---- MODULE Spec2Model ----
(***************************************************************************)
(* Model of the group listening-overlap analytics of the Last.fm collage   *)
(* bot (src/src/services/summary_service.py).                              *)
(*                                                                         *)
(* Python values are modelled as follows.                                  *)
(*  - A str that is an artist, album or track name is a sequence of        *)
(*    tokens, so that the f-string "{artist} - {name}" is a real           *)
(*    concatenation with the separator token " - " in the middle.          *)
(*  - A set (artists, albums) is a duplicate-free sequence: the elements   *)
(*    in the order in which the interpreter iterates over the set.         *)
(*  - A dict / Counter is a sequence of <<key, value>> entries with        *)
(*    distinct keys, in insertion order.                                   *)
(*  - Optional[T] is a sequence of length 0 (None) or 1 (a value).         *)
(***************************************************************************)
EXTENDS Integers, Sequences, FiniteSets, TLC

VARIABLES
    users,             \* the profile list handed to compute_group_summary
    summary,           \* the GroupSummary it returned
    pc,                \* the caller's position
    fetched,           \* the raw top lists each profile was extracted from
    text,              \* the lines rendered by format_summary_text
    weekly_schedules,  \* the rows of the weekly_schedules table
    last_op,           \* the last database call, its result and the rows before it
    calls,             \* concurrent invocations of compute_group_summary
    acc,               \* the accumulators of those invocations
    lastfm,            \* the Last.fm fetches: the one in progress and the finished ones
    grid,              \* the album lists given to determine_dynamic_grid_size and its results
    own,               \* each Discord user's own last subscription command and its outcome
    post,              \* the run of _post_channel_collages over one channel
    dl,                \* the run of download_album_images and the image cache
    frame              \* a caller's profile list before and after successive calls

vars ==
    <<users, summary, pc, fetched, text, weekly_schedules, last_op, calls, acc,
      lastfm, grid, own, post, dl, frame>>

(* the state of the summary pipeline *)
summaryVars == <<users, summary, pc, fetched, text>>

(* the state of the fetching, subscribing, posting and downloading code *)
ioVars == <<lastfm, grid, own, post, dl, frame>>

(* the state outside the summary pipeline *)
dbVars == <<weekly_schedules, last_op>>

concVars == <<calls, acc>>

(* ---------------------------------------------------------------------- *)
(* Bounds and program constants                                           *)
(* ---------------------------------------------------------------------- *)
MaxUsers == 3

MinListeners == 2

GemThreshold == 10

(* how many profiles are extracted in one run *)
MaxExtracted == 2

(* how many invocations of compute_group_summary run at the same time *)
MaxCalls == 2

(* the longest album list given to determine_dynamic_grid_size *)
MaxAlbums == 37

(* how many Last.fm fetches are made in one run *)
MaxFetches == 2

(* stop_after_attempt(3) *)
StopAfterAttempt == 3

(* the [:5] slices of format_summary_text *)
TopN == 5

(* the longest popular list handed to format_summary_text on its own *)
MaxEntries == 6

MaxSchedules == 3

MaxCovers == 3

MaxInvocations == 2

(* ---------------------------------------------------------------------- *)
(* Python value helpers                                                   *)
(* ---------------------------------------------------------------------- *)
None == <<>>

Some(x) == <<x>>

(* a Python int, tagged so that an int and a list can be told apart *)
PyInt(n) == [type |-> "int", val |-> n]

ToSet(s) == {s[i] : i \in 1..Len(s)}

DictHas(d, k) == \E i \in 1..Len(d) : d[i][1] = k

DictGet(d, k) == d[CHOOSE i \in 1..Len(d) : d[i][1] = k][2]

DictSet(d, k, v) ==
    IF DictHas(d, k)
    THEN [i \in 1..Len(d) |-> IF d[i][1] = k THEN <<k, v>> ELSE d[i]]
    ELSE Append(d, <<k, v>>)

DictValues(d) == {d[i][2] : i \in 1..Len(d)}

(* Counter()[k] += 1 : a missing key counts as 0 and is inserted last *)
CounterIncr(c, k) ==
    IF DictHas(c, k) THEN DictSet(c, k, DictGet(c, k) + 1) ELSE Append(c, <<k, 1>>)

(* Counter()[k] read access: a missing key reads as 0 *)
CounterGet(c, k) == IF DictHas(c, k) THEN DictGet(c, k) ELSE 0

(* ---------------------------------------------------------------------- *)
(* Names                                                                  *)
(* ---------------------------------------------------------------------- *)
TA == <<"a">>

TB == <<"b">>

TAA == <<"a", " - ", "a">>

(* f"{t[0]} - {t[1]}" *)
Label(t) == t[1] \o <<" - ">> \o t[2]

K1 == <<TA, TAA>>

K2 == <<TAA, TA>>

K3 == <<TB, TB>>

DisplayNames == {"A", "B", "C"}

(* ---------------------------------------------------------------------- *)
(* UserListeningData and PairOverlap                                      *)
(* ---------------------------------------------------------------------- *)
UserListeningData(name, ar, al, tr) ==
    [display_name |-> name, artists |-> ar, albums |-> al, tracks |-> tr]

TrackKeys(u) == {u.tracks[i][1] : i \in 1..Len(u.tracks)}

(* an overlap whose shared tracks must also agree on the playcount *)
pair_overlap_same_plays(a, b) ==
    [user_a |-> a.display_name,
     user_b |-> b.display_name,
     shared_artists |-> ToSet(a.artists) \cap ToSet(b.artists),
     shared_albums |-> ToSet(a.albums) \cap ToSet(b.albums),
     shared_tracks |-> {e[1] : e \in ToSet(a.tracks) \cap ToSet(b.tracks)}]

compute_pair_overlap(a, b) ==
    [user_a |-> a.display_name,
     user_b |-> b.display_name,
     shared_artists |-> ToSet(a.artists) \cap ToSet(b.artists),
     shared_albums |-> ToSet(a.albums) \cap ToSet(b.albums),
     shared_tracks |-> TrackKeys(a) \cap TrackKeys(b)]

total_shared(o) ==
    Cardinality(o.shared_artists) + Cardinality(o.shared_albums)
        + Cardinality(o.shared_tracks)

(* ---------------------------------------------------------------------- *)
(* compute_group_summary: pairwise pass                                   *)
(* ---------------------------------------------------------------------- *)
RECURSIVE CombFrom(_, _, _)
CombFrom(i, j, n) ==
    IF i >= n THEN <<>>
    ELSE IF j > n THEN CombFrom(i + 1, i + 2, n)
    ELSE <<<<i, j>>>> \o CombFrom(i, j + 1, n)

(* a pairing that also pairs the first profile with itself *)
combinationsWithSelf(n) == CombFrom(1, 1, n)

(* index pairs of itertools.combinations(users, 2), in its order *)
combinations(n) == CombFrom(1, 2, n)

(* {u.display_name: 0 for u in users} *)
RECURSIVE InitScores(_, _)
InitScores(us, k) ==
    IF k = 0 THEN <<>> ELSE DictSet(InitScores(us, k - 1), us[k].display_name, 0)

(* scores that start out without any key *)
no_overlap_scores(us) == <<>>

(* overlap_scores as the pairwise loop finds it *)
overlap_scores(us) == InitScores(us, Len(us))

(* a comparison that lets a later pair with an equal total win *)
BetterOrEqualOverlap(best, overlap) ==
    best = None \/ total_shared(overlap) >= total_shared(best[1])

(* if best_overlap is None or overlap.total_shared > best_overlap.total_shared *)
BetterOverlap(best, overlap) ==
    best = None \/ total_shared(overlap) > total_shared(best[1])

(* overlap_scores[a.display_name] += t; overlap_scores[b.display_name] += t *)
AddScores(scores, a, b, t) ==
    LET s1 == DictSet(scores, a.display_name, DictGet(scores, a.display_name) + t)
    IN  DictSet(s1, b.display_name, DictGet(s1, b.display_name) + t)

(* one iteration of the loop over combinations(users, 2) *)
PairStep(st, a, b) ==
    LET overlap == compute_pair_overlap(a, b)
    IN  IF total_shared(overlap) > 0
        THEN [best |-> IF BetterOverlap(st.best, overlap) THEN Some(overlap) ELSE st.best,
              scores |-> AddScores(st.scores, a, b, total_shared(overlap))]
        ELSE st

RECURSIVE PairLoop(_, _, _)
PairLoop(us, pairs, k) ==
    IF k = 0 THEN [best |-> None, scores |-> overlap_scores(us)]
    ELSE PairStep(PairLoop(us, pairs, k - 1), us[pairs[k][1]], us[pairs[k][2]])

(* min(overlap_scores, key=lambda k: overlap_scores[k]) : first minimal key *)
MinKey(d) ==
    d[CHOOSE i \in 1..Len(d) :
        /\ \A j \in 1..Len(d) : d[j][2] >= d[i][2]
        /\ \A j \in 1..(i - 1) : d[j][2] > d[i][2]][1]

(* all(v == overlap_scores[biggest_outlier] for v in overlap_scores.values()) *)
AllSameScore(d, k) == \A v \in DictValues(d) : v = DictGet(d, k)

BiggestOutlier(us, scores) ==
    IF Len(us) >= 2
    THEN IF AllSameScore(scores, MinKey(scores)) THEN None ELSE Some(MinKey(scores))
    ELSE None

(* ---------------------------------------------------------------------- *)
(* compute_group_summary: popularity tally                                *)
(* ---------------------------------------------------------------------- *)
(* for a in u.artists: artist_counter[a] += 1 *)
RECURSIVE CountArtists(_, _, _)
CountArtists(c, ar, k) ==
    IF k = 0 THEN c ELSE CounterIncr(CountArtists(c, ar, k - 1), ar[k])

(* for a in u.albums: album_counter[f"{a[0]} - {a[1]}"] += 1 *)
RECURSIVE CountAlbums(_, _, _)
CountAlbums(c, al, k) ==
    IF k = 0 THEN c ELSE CounterIncr(CountAlbums(c, al, k - 1), Label(al[k]))

(* track_counter[track_name] += 1 for every (track_tuple, playcount) *)
RECURSIVE CountTracks(_, _, _)
CountTracks(c, tr, k) ==
    IF k = 0 THEN c ELSE CounterIncr(CountTracks(c, tr, k - 1), Label(tr[k][1]))

(* if track_tuple not in track_plays: track_plays[track_tuple] = (user, playcount) *)
RecordPlay(plays, name, entry) ==
    IF DictHas(plays, entry[1]) THEN plays
    ELSE Append(plays, <<entry[1], <<name, entry[2]>>>>)

RECURSIVE RecordPlays(_, _, _, _)
RecordPlays(plays, name, tr, k) ==
    IF k = 0 THEN plays
    ELSE RecordPlay(RecordPlays(plays, name, tr, k - 1), name, tr[k])

(* the body of "for u in users" *)
ScanUser(st, u) ==
    [artist_counter |-> CountArtists(st.artist_counter, u.artists, Len(u.artists)),
     album_counter |-> CountAlbums(st.album_counter, u.albums, Len(u.albums)),
     track_counter |-> CountTracks(st.track_counter, u.tracks, Len(u.tracks)),
     track_plays |-> RecordPlays(st.track_plays, u.display_name, u.tracks, Len(u.tracks))]

RECURSIVE ScanUsers(_, _)
ScanUsers(us, k) ==
    IF k = 0
    THEN [artist_counter |-> <<>>, album_counter |-> <<>>,
          track_counter |-> <<>>, track_plays |-> <<>>]
    ELSE ScanUser(ScanUsers(us, k - 1), us[k])

(* position of e in a list sorted by descending count: behind every entry *)
(* whose count is not smaller (sorted(..., reverse=True) is stable)        *)
RECURSIVE InsertDesc(_, _)
InsertDesc(s, e) ==
    IF s = <<>> THEN <<e>>
    ELSE IF Head(s)[2] >= e[2] THEN <<Head(s)>> \o InsertDesc(Tail(s), e)
    ELSE <<e>> \o s

(* Counter.most_common(): sorted(self.items(), key=itemgetter(1), reverse=True) *)
RECURSIVE MostCommonUpTo(_, _)
MostCommonUpTo(c, k) ==
    IF k = 0 THEN <<>> ELSE InsertDesc(MostCommonUpTo(c, k - 1), c[k])

most_common(c) == MostCommonUpTo(c, Len(c))

(* if count >= 2 *)
IsPopular(e) == e[2] >= MinListeners

(* (name, count) *)
PopularEntry(e) == <<e[1], PyInt(e[2])>>

(* [(name, count) for name, count in counter.most_common() if count >= 2] *)
Popular(c) ==
    LET kept == SelectSeq(most_common(c), IsPopular)
    IN  [i \in 1..Len(kept) |-> PopularEntry(kept[i])]

(* ---------------------------------------------------------------------- *)
(* compute_group_summary: hidden gem                                      *)
(* ---------------------------------------------------------------------- *)
(* a test that forgets the listener count *)
IsGemCandidateAnyListeners(track_counter, track_name, playcount) ==
    playcount > GemThreshold

(* if track_counter[track_name] == 1 and playcount > 10 *)
IsGemCandidate(track_counter, track_name, playcount) ==
    CounterGet(track_counter, track_name) = 1 /\ playcount > GemThreshold

(* if hidden_gem is None or playcount > hidden_gem[2] *)
BetterGem(gem, playcount) == gem = None \/ playcount > gem[1][3]

(* the body of "for track_tuple, (user, playcount) in track_plays.items()" *)
GemStep(gem, track_counter, entry) ==
    LET track_name == Label(entry[1])
        user == entry[2][1]
        playcount == entry[2][2]
    IN  IF IsGemCandidate(track_counter, track_name, playcount)
           /\ BetterGem(gem, playcount)
        THEN Some(<<user, track_name, playcount>>)
        ELSE gem

RECURSIVE GemLoop(_, _, _)
GemLoop(track_counter, plays, k) ==
    IF k = 0 THEN None
    ELSE GemStep(GemLoop(track_counter, plays, k - 1), track_counter, plays[k])

(* ---------------------------------------------------------------------- *)
(* compute_group_summary                                                  *)
(* ---------------------------------------------------------------------- *)
(* overlap_scores[name] += t raises KeyError for a name that is not a key *)
ScoreKeyError(us) ==
    \E p \in ToSet(combinations(Len(us))) :
        /\ total_shared(compute_pair_overlap(us[p[1]], us[p[2]])) > 0
        /\ \/ ~DictHas(overlap_scores(us), us[p[1]].display_name)
           \/ ~DictHas(overlap_scores(us), us[p[2]].display_name)

(* min() of an empty overlap_scores raises ValueError *)
MinValueError(us) == Len(us) >= 2 /\ overlap_scores(us) = <<>>

(* the call raises instead of returning *)
summary_raises(us) == Len(us) # 0 /\ (ScoreKeyError(us) \/ MinValueError(us))

(* len(overlap_scores): the number of distinct display names *)
UserCountByName(us) == Len(InitScores(us, Len(us)))

(* user_count = len(users) *)
UserCount(us) == Len(us)

compute_group_summary(us) ==
    IF Len(us) = 0
    THEN [most_overlapping |-> None, biggest_outlier |-> None,
          popular_artists |-> <<>>, popular_albums |-> <<>>,
          popular_tracks |-> <<>>, hidden_gem |-> None, user_count |-> 0]
    ELSE LET pairs == combinations(Len(us))
             pass == PairLoop(us, pairs, Len(pairs))
             tally == ScanUsers(us, Len(us))
         IN  [most_overlapping |-> pass.best,
              biggest_outlier |-> BiggestOutlier(us, pass.scores),
              popular_artists |-> Popular(tally.artist_counter),
              popular_albums |-> Popular(tally.album_counter),
              popular_tracks |-> Popular(tally.track_counter),
              hidden_gem |-> GemLoop(tally.track_counter, tally.track_plays,
                                     Len(tally.track_plays)),
              user_count |-> UserCount(us)]

(* ---------------------------------------------------------------------- *)
(* Inputs: the profiles a caller may hand to compute_group_summary        *)
(* ---------------------------------------------------------------------- *)
(* an album together with a track of it, or neither *)
Libraries == {<<<<>>, <<>>>>, <<<<K3>>, <<<<K3, 5>>>>>>}

(* profiles that differ in the artists, albums and tracks they share *)
OverlapProfiles ==
    {UserListeningData(n, ar, lib[1], lib[2]) :
        n \in DisplayNames,
        ar \in {<<>>, <<TA>>, <<TB>>, <<TA, TB>>},
        lib \in Libraries}

PopularNames == {"A", "B"}

Plays == {10, 11, 20}

(* track maps of one listener: none, one track, or two tracks in map order *)
TrackMaps ==
    {<<>>}
    \cup {<<<<k, n>>>> : k \in {K1, K2, K3}, n \in Plays}
    \cup {<<<<K1, 20>>, <<K3, 20>>>>, <<<<K3, 20>>, <<K1, 20>>>>,
           <<<<K1, 11>>, <<K2, 20>>>>}

(* the (artist, name) keys of a track map, in map order *)
KeysOf(tr) == [i \in 1..Len(tr) |-> tr[i][1]]

(* the artists of a track map, in map order *)
ArtistsOf(tr) == [i \in 1..Len(tr) |-> tr[i][1][1]]

(* profiles whose top albums and top artists are those of their top tracks *)
PopularProfiles ==
    {UserListeningData(n, ArtistsOf(tr), KeysOf(tr), tr) :
        n \in PopularNames, tr \in TrackMaps}

(* ---------------------------------------------------------------------- *)
(* The Redis store of the image cache                                     *)
(* ---------------------------------------------------------------------- *)
IMAGE_CACHE_TTL == 29 * 86400

NEGATIVE_CACHE_TTL == 6 * 3600

_NEGATIVE_SENTINEL == <<"MISS">>

(* _MISS.MISS, the lookup result of an url the cache knows nothing about *)
MISS == <<"_MISS.MISS">>

ImageUrls == {<<"u1">>, <<"u2">>}

(* image_url is a non-empty url or None *)
CoverAlbums == {[image_url |-> u] : u \in ImageUrls \cup {None}}

(* "img:v1:" + sha1(url) *)
_cache_key(url) == <<"img:v1:">> \o url

CacheKeys == {_cache_key(u) : u \in ImageUrls}

(* the tile made from the cover behind an url *)
TileOf(url) == <<"image">> \o url

(* img.tobytes() *)
tobytes(img) == <<"rgb">> \o Tail(img)

(* Image.frombytes("RGB", (TILE_SIZE, TILE_SIZE), cached) *)
frombytes(cached) == <<"image">> \o Tail(cached)

(* a key that is not set: GET gives nil *)
NoEntry == [value |-> None, ttl |-> 0]

NoRedis == [key \in CacheKeys |-> NoEntry]

(* ---------------------------------------------------------------------- *)
(* State machine: a caller assembles the profile list, then summarizes    *)
(* ---------------------------------------------------------------------- *)
Init ==
    /\ users = <<>>
    /\ summary = None
    /\ pc = "collect"
    /\ fetched = <<>>
    /\ text = None
    /\ weekly_schedules = {}
    /\ last_op = None
    /\ calls = <<>>
    /\ acc = <<>>
    /\ lastfm = [current |-> None, finished |-> <<>>]
    /\ grid = <<>>
    /\ own = [last |-> [u \in {100, 200} |-> [op |-> "none", ok |-> FALSE]],
              user_preferences |-> [u \in {100, 200} |-> None],
              joining |-> [u \in {100, 200} |-> None]]
    /\ post = [pc |-> "idle", schedules |-> <<>>, i |-> 1, user_data_list |-> <<>>,
               attempted |-> <<>>, outcomes |-> <<>>, sends |-> <<>>]
    /\ dl = [pc |-> "idle", albums |-> <<>>, cache |-> FALSE, mget_ok |-> TRUE,
             redis0 |-> NoRedis, redis |-> NoRedis, looked_up |-> <<>>,
             images |-> <<>>, to_download |-> <<>>, downloaded |-> <<>>,
             k |-> 1, puts |-> <<>>]
    /\ frame = [pc |-> "idle", before |-> <<>>, users |-> <<>>, summary |-> None,
                returned |-> None, invocations |-> <<>>]

(* user_data_list.append(listening_data) *)
AddOverlapUser ==
    /\ pc = "collect"
    /\ Len(users) < MaxUsers
    /\ \E u \in OverlapProfiles : users' = Append(users, u)
    /\ UNCHANGED <<summary, pc, fetched, text, dbVars, concVars, ioVars>>

(* summary = compute_group_summary(user_data_list) *)
Summarize ==
    /\ pc = "collect"
    /\ IF summary_raises(users)
       THEN /\ pc' = "raised"
            /\ summary' = summary
       ELSE /\ pc' = "done"
            /\ summary' = Some(compute_group_summary(users))
    /\ UNCHANGED <<users, fetched, text, dbVars, concVars, ioVars>>

NextOverlap == AddOverlapUser \/ Summarize

SpecOverlap == Init /\ [][NextOverlap]_vars

(* user_data_list.append(listening_data) *)
AddPopularUser ==
    /\ pc = "collect"
    /\ Len(users) < MaxUsers
    /\ \E u \in PopularProfiles : users' = Append(users, u)
    /\ UNCHANGED <<summary, pc, fetched, text, dbVars, concVars, ioVars>>

NextPopular == AddPopularUser \/ Summarize

SpecPopular == Init /\ [][NextPopular]_vars

(* ---------------------------------------------------------------------- *)
(* extract_listening_data                                                 *)
(* ---------------------------------------------------------------------- *)
(* an attribute of the top list is read whatever the top list is *)
AlwaysGuarded(top) == TRUE

(* `if top_artists:` : a model instance is truthy, None is not *)
Guarded(top) == top # None

(* reading .artists, .albums or .tracks of None raises AttributeError *)
extract_raises(top_artists, top_albums, top_tracks) ==
    \/ Guarded(top_artists) /\ top_artists = None
    \/ Guarded(top_albums) /\ top_albums = None
    \/ Guarded(top_tracks) /\ top_tracks = None

(* the orders in which a Python set of these members may be iterated *)
SetOrders(S) ==
    {q \in [1..Cardinality(S) -> S] : \A i, j \in 1..Cardinality(S) : q[i] = q[j] => i = j}

(* {a.name for a in top_artists.artists} *)
ArtistNames(top_artists) ==
    IF Guarded(top_artists)
    THEN {top_artists[1][i].name : i \in 1..Len(top_artists[1])}
    ELSE {}

(* {(a.artist, a.name) for a in top_albums.albums} *)
AlbumKeys(top_albums) ==
    IF Guarded(top_albums)
    THEN {<<top_albums[1][i].artist, top_albums[1][i].name>> :
              i \in 1..Len(top_albums[1])}
    ELSE {}

(* {(t.artist, t.name): t.playcount for t in top_tracks.tracks[:k]} *)
RECURSIVE TrackDict(_, _)
TrackDict(tracks, k) ==
    IF k = 0 THEN <<>>
    ELSE DictSet(TrackDict(tracks, k - 1),
                 <<tracks[k].artist, tracks[k].name>>, tracks[k].playcount)

TrackMap(top_tracks) ==
    IF Guarded(top_tracks)
    THEN TrackDict(top_tracks[1], Len(top_tracks[1]))
    ELSE <<>>

(* the profiles the call may return: one for each iteration order of the  *)
(* two sets it builds                                                     *)
extract_listening_data(display_name, top_artists, top_albums, top_tracks) ==
    {UserListeningData(display_name, ar, al, TrackMap(top_tracks)) :
        ar \in SetOrders(ArtistNames(top_artists)),
        al \in SetOrders(AlbumKeys(top_albums))}

(* what the three fetches of one subscriber may return *)
ArtistModel(n) == [name |-> n]

AlbumModel(k) == [artist |-> k[1], name |-> k[2]]

TrackModel(k, n) == [artist |-> k[1], name |-> k[2], playcount |-> n]

TopArtistsModels ==
    {None, Some(<<>>), Some(<<ArtistModel(TA), ArtistModel(TB)>>),
     Some(<<ArtistModel(TA), ArtistModel(TA)>>)}

TopAlbumsModels == {None, Some(<<AlbumModel(K3), AlbumModel(K1)>>)}

TopTracksModels ==
    {None, Some(<<TrackModel(K3, 5), TrackModel(K3, 11)>>),
     Some(<<TrackModel(K1, 11), TrackModel(K3, 5)>>)}

(* one subscriber is fetched and its profile appended to user_data_list *)
ExtractUser ==
    /\ pc = "collect"
    /\ Len(users) < MaxExtracted
    /\ \E display_name \in PopularNames,
          top_artists \in TopArtistsModels,
          top_albums \in TopAlbumsModels,
          top_tracks \in TopTracksModels :
          IF extract_raises(top_artists, top_albums, top_tracks)
          THEN /\ pc' = "raised"
               /\ UNCHANGED <<users, fetched>>
          ELSE /\ \E u \in extract_listening_data(display_name, top_artists,
                                                  top_albums, top_tracks) :
                      users' = Append(users, u)
               /\ fetched' = Append(fetched,
                      [display_name |-> display_name,
                       top_artists |-> top_artists,
                       top_albums |-> top_albums,
                       top_tracks |-> top_tracks])
               /\ pc' = pc
    /\ UNCHANGED <<summary, text, dbVars, concVars, ioVars>>

NextExtract == ExtractUser \/ Summarize

SpecExtract == Init /\ [][NextExtract]_vars

(* ---------------------------------------------------------------------- *)
(* format_summary_text (services/summary_service.py)                      *)
(* A text is a sequence of string tokens; a name contributes its tokens.  *)
(* Emoji are written by their short names and the dash as "--".           *)
(* ---------------------------------------------------------------------- *)
(* sep.join(parts) *)
RECURSIVE JoinUpTo(_, _, _)
JoinUpTo(sep, parts, k) ==
    IF k = 0 THEN <<>>
    ELSE IF k = 1 THEN parts[1]
    ELSE JoinUpTo(sep, parts, k - 1) \o <<sep>> \o parts[k]

Join(sep, parts) == JoinUpTo(sep, parts, Len(parts))

(* s[:n] *)
FirstN(s, n) == SubSeq(s, 1, IF Len(s) < n THEN Len(s) ELSE n)

(* f"{count}" *)
Str(count) == ToString(count.val)

(* name.replace(' - ', ' ') *)
replace_dash(name) == [i \in 1..Len(name) |-> IF name[i] = " - " THEN " " ELSE name[i]]

(* quote_plus: a space becomes a plus sign *)
quote_plus(s) == [i \in 1..Len(s) |-> IF s[i] = " " THEN "+" ELSE s[i]]

youtube_url(name) ==
    <<"https://www.youtube.com/results?search_query=">>
        \o quote_plus(replace_dash(name))

NoOverlapLine == <<":musical_note: Everyone has pretty unique taste -- no overlap found!">>

OverlapLine(o) ==
    <<":musical_note: **", o.user_a, "** and **", o.user_b,
      "** have the most in common (", ToString(total_shared(o)), " shared)!">>

OutlierLine(name) ==
    <<":unicorn: **", name, "** is the biggest outlier of the group.">>

ArtistsHeading == ":trophy: group favorite artists: "

AlbumsHeading == ":cd: group favorite albums: "

TracksHeading == ":notes: group favorite tracks: "

(* f"**{name}** ({count})" *)
NameEntry(e) == <<"**">> \o e[1] \o <<"** (", Str(e[2]), ")">>

(* f"[{name}]({youtube_url}) ({count})" *)
TrackEntry(e) ==
    <<"[">> \o e[1] \o <<"](">> \o youtube_url(e[1]) \o <<") (", Str(e[2]), ")">>

GemLine(gem) ==
    <<":gem: hidden gem: **", gem[1], "** has [">> \o gem[2] \o <<"](">>
        \o youtube_url(gem[2])
        \o <<") on repeat (", ToString(gem[3]), " plays)!">>

(* `if summary.biggest_outlier:` : an empty name is falsy like None *)
TruthyName(outlier) == outlier # None /\ outlier[1] # ""

(* a category line that is printed whether or not the list is empty *)
SectionAlways(heading, popular, rendered) ==
    <<<<heading>> \o Join(", ", rendered)>>

(* `if summary.popular_artists:` and the line appended under it *)
Section(heading, popular, rendered) ==
    IF popular # <<>> THEN <<<<heading>> \o Join(", ", rendered)>> ELSE <<>>

format_summary_text(s) ==
    LET top_artists == FirstN(s.popular_artists, TopN)
        top_albums == FirstN(s.popular_albums, TopN)
        top_tracks == FirstN(s.popular_tracks, TopN)
        lines ==
            (IF s.most_overlapping # None
             THEN <<OverlapLine(s.most_overlapping[1])>>
             ELSE <<NoOverlapLine>>)
            \o (IF TruthyName(s.biggest_outlier)
                THEN <<OutlierLine(s.biggest_outlier[1])>>
                ELSE <<>>)
            \o Section(ArtistsHeading, s.popular_artists,
                       [i \in 1..Len(top_artists) |-> NameEntry(top_artists[i])])
            \o Section(AlbumsHeading, s.popular_albums,
                       [i \in 1..Len(top_albums) |-> NameEntry(top_albums[i])])
            \o Section(TracksHeading, s.popular_tracks,
                       [i \in 1..Len(top_tracks) |-> TrackEntry(top_tracks[i])])
            \o (IF s.hidden_gem # None THEN <<GemLine(s.hidden_gem[1])>> ELSE <<>>)
    IN  Join("\n", lines)

(* ---------------------------------------------------------------------- *)
(* format_summary_text (formatters/summary_formatter.py)                  *)
(* ---------------------------------------------------------------------- *)
(* f"{len(shared)} artist{'s' if len(shared) != 1 else ''}", if any *)
SharedPart(shared, noun) ==
    IF shared # {}
    THEN <<<<ToString(Cardinality(shared)),
             IF Cardinality(shared) # 1 THEN " " \o noun \o "s" ELSE " " \o noun>>>>
    ELSE <<>>

FormatterOverlapLine(o) ==
    <<":musical_note: **", o.user_a, "** and **", o.user_b,
      "** have the most in common (">>
        \o Join(", ", SharedPart(o.shared_artists, "artist")
                        \o SharedPart(o.shared_albums, "album")
                        \o SharedPart(o.shared_tracks, "track"))
        \o <<")!">>

(* ", ".join(user_list) raises TypeError unless user_list is a list *)
JoinRaises(user_list) == user_list.type # "list"

(* ", ".join(user_list) *)
users_str(user_list) ==
    Join(", ", [i \in 1..Len(user_list.val) |-> <<user_list.val[i]>>])

(* f"• {name} ({users_str})" *)
BulletEntry(e) == <<"* ">> \o e[1] \o <<" (">> \o users_str(e[2]) \o <<")">>

(* f"• [{name}](<{youtube_url}>) ({users_str})" *)
BulletTrackEntry(e) ==
    <<"* [">> \o e[1] \o <<"](<">> \o youtube_url(e[1]) \o <<">) (">>
        \o users_str(e[2]) \o <<")">>

FormatterGemLines(gem) ==
    <<"\n:gem: **Hidden Gem:**\n", "**", gem[1], "** has [">> \o gem[2] \o <<"](<">>
        \o youtube_url(gem[2])
        \o <<">) on repeat (", ToString(gem[3]), " plays)!">>

(* the header of a category and one line for each of its first entries *)
BulletSection(heading, popular, rendered) ==
    IF popular # <<>> THEN <<<<heading>>>> \o rendered ELSE <<>>

(* the call raises as soon as it joins the listeners of a rendered entry *)
formatter_raises(s) ==
    \E popular \in {s.popular_artists, s.popular_albums, s.popular_tracks} :
        \E i \in 1..Len(FirstN(popular, TopN)) : JoinRaises(popular[i][2])

formatter_format_summary_text(s) ==
    LET top_artists == FirstN(s.popular_artists, TopN)
        top_albums == FirstN(s.popular_albums, TopN)
        top_tracks == FirstN(s.popular_tracks, TopN)
        lines ==
            <<<<"**Weekly Group Summary**\n">>>>
            \o (IF s.most_overlapping # None
                THEN <<FormatterOverlapLine(s.most_overlapping[1])>>
                ELSE <<NoOverlapLine>>)
            \o (IF TruthyName(s.biggest_outlier)
                THEN <<OutlierLine(s.biggest_outlier[1])>>
                ELSE <<>>)
            \o BulletSection("\n:trophy: **Group Favorite Artists:**", s.popular_artists,
                       [i \in 1..Len(top_artists) |-> BulletEntry(top_artists[i])])
            \o BulletSection("\n:cd: **Group Favorite Albums:**", s.popular_albums,
                       [i \in 1..Len(top_albums) |-> BulletEntry(top_albums[i])])
            \o BulletSection("\n:notes: **Group Favorite Tracks:**", s.popular_tracks,
                       [i \in 1..Len(top_tracks) |-> BulletTrackEntry(top_tracks[i])])
            \o (IF s.hidden_gem # None
                THEN <<FormatterGemLines(s.hidden_gem[1])>>
                ELSE <<>>)
            \o <<<<"\n---\n*", ToString(s.user_count), " participants this week*">>>>
    IN  Join("\n", lines)

(* ---------------------------------------------------------------------- *)
(* Summaries handed to the formatters on their own                        *)
(* ---------------------------------------------------------------------- *)
(* the i-th popular artist; the first two have one listener more *)
PopularArtistAt(i) == <<<<ToString(i)>>, PyInt(IF i <= 2 THEN 3 ELSE 2)>>

(* the i-th popular album or track, labelled "{artist} - {name}" *)
PopularItemAt(i) == <<Label(<<<<ToString(i)>>, TB>>), PyInt(IF i <= 2 THEN 3 ELSE 2)>>

PopularArtistLists == {[i \in 1..n |-> PopularArtistAt(i)] : n \in 0..MaxEntries}

PopularItemLists == {[i \in 1..n |-> PopularItemAt(i)] : n \in 0..MaxEntries}

GroupSummaries ==
    [most_overlapping :
         {None, Some(compute_pair_overlap(
                         UserListeningData("A", <<TA>>, <<>>, <<>>),
                         UserListeningData("B", <<TA>>, <<>>, <<>>)))},
     biggest_outlier : {None, Some("C")},
     popular_artists : PopularArtistLists,
     popular_albums : PopularItemLists,
     popular_tracks : PopularItemLists,
     hidden_gem : {None, Some(<<"C", Label(K3), 11>>)},
     user_count : {3}]

(* a summary reaches the formatter *)
PickSummary ==
    /\ pc = "collect"
    /\ users = <<>>
    /\ \E s \in GroupSummaries : summary' = Some(s)
    /\ pc' = "done"
    /\ UNCHANGED <<users, fetched, text, dbVars, concVars, ioVars>>

(* text = format_summary_text(summary) in the weekly posting loop *)
FormatSummary ==
    /\ pc = "done"
    /\ text' = Some(format_summary_text(summary[1]))
    /\ pc' = "formatted"
    /\ UNCHANGED <<users, summary, fetched, dbVars, concVars, ioVars>>

(* text = format_summary_text(summary) in the test command *)
FormatterFormatSummary ==
    /\ pc = "done"
    /\ IF formatter_raises(summary[1])
       THEN /\ pc' = "raised"
            /\ text' = text
       ELSE /\ pc' = "formatter_formatted"
            /\ text' = Some(formatter_format_summary_text(summary[1]))
    /\ UNCHANGED <<users, summary, fetched, dbVars, concVars, ioVars>>

NextFormat ==
    \/ AddPopularUser
    \/ Summarize
    \/ PickSummary
    \/ FormatSummary
    \/ FormatterFormatSummary

SpecFormat == Init /\ [][NextFormat]_vars

(* ---------------------------------------------------------------------- *)
(* Concurrent invocations of compute_group_summary, one statement or loop *)
(* iteration at a time; each invocation has its own frame of locals       *)
(* ---------------------------------------------------------------------- *)
(* the lists the concurrent callers pass *)
ConcurrentInputs ==
    {<<>>,
     <<UserListeningData("A", <<TA>>, <<>>, <<>>),
       UserListeningData("B", <<TA>>, <<>>, <<>>)>>,
     <<UserListeningData("A", <<TA, TB>>, <<K3>>, <<<<K3, 5>>>>),
       UserListeningData("B", <<TB>>, <<K3>>, <<<<K3, 11>>>>)>>,
     <<UserListeningData("A", <<>>, <<>>, <<<<K1, 20>>>>),
       UserListeningData("B", <<>>, <<>>, <<>>),
       UserListeningData("A", <<TA>>, <<>>, <<>>)>>}

(* the locals of an invocation before its first statement *)
NoLocals ==
    [best |-> None, scores |-> <<>>, outlier |-> None,
     artist_counter |-> <<>>, album_counter |-> <<>>,
     track_counter |-> <<>>, track_plays |-> <<>>]

(* every invocation works in the frame of the first one *)
FirstFrame(i) == 1

(* the frame that holds the locals of invocation i *)
Frame(i) == i

(* compute_group_summary(users) is called *)
Call ==
    /\ Len(calls) < MaxCalls
    /\ \E us \in ConcurrentInputs :
          calls' = Append(calls, [users |-> us, pc |-> "start", idx |-> 0,
                                  result |-> None])
    /\ acc' = Append(acc, NoLocals)
    /\ UNCHANGED <<users, summary, pc, fetched, text, dbVars, ioVars>>

(* if not users: return ...; best_overlap = None; overlap_scores = {...} *)
CallStart(i) ==
    /\ calls[i].pc = "start"
    /\ IF Len(calls[i].users) = 0
       THEN /\ calls' = [calls EXCEPT ![i].pc = "returned",
                                      ![i].result = Some(compute_group_summary(<<>>))]
            /\ acc' = acc
       ELSE /\ calls' = [calls EXCEPT ![i].pc = "pairs", ![i].idx = 1]
            /\ acc' = [acc EXCEPT ![Frame(i)] =
                          [NoLocals EXCEPT !.scores = overlap_scores(calls[i].users)]]
    /\ UNCHANGED <<users, summary, pc, fetched, text, dbVars, ioVars>>

(* one iteration of "for a, b in combinations(users, 2)", or its end *)
CallPair(i) ==
    /\ calls[i].pc = "pairs"
    /\ LET us == calls[i].users
           pairs == combinations(Len(us))
           k == calls[i].idx
           locals == acc[Frame(i)]
       IN  IF k > Len(pairs)
           THEN /\ calls' = [calls EXCEPT ![i].pc = "outlier"]
                /\ acc' = acc
           ELSE LET st == PairStep([best |-> locals.best, scores |-> locals.scores],
                                   us[pairs[k][1]], us[pairs[k][2]])
                IN  /\ calls' = [calls EXCEPT ![i].idx = k + 1]
                    /\ acc' = [acc EXCEPT ![Frame(i)].best = st.best,
                                          ![Frame(i)].scores = st.scores]
    /\ UNCHANGED <<users, summary, pc, fetched, text, dbVars, ioVars>>

(* the outlier block; then the four counters are created *)
CallOutlier(i) ==
    /\ calls[i].pc = "outlier"
    /\ calls' = [calls EXCEPT ![i].pc = "scan", ![i].idx = 1]
    /\ acc' = [acc EXCEPT
                  ![Frame(i)].outlier =
                      BiggestOutlier(calls[i].users, acc[Frame(i)].scores),
                  ![Frame(i)].artist_counter = <<>>,
                  ![Frame(i)].album_counter = <<>>,
                  ![Frame(i)].track_counter = <<>>,
                  ![Frame(i)].track_plays = <<>>]
    /\ UNCHANGED <<users, summary, pc, fetched, text, dbVars, ioVars>>

(* one iteration of "for u in users", or its end *)
CallScan(i) ==
    /\ calls[i].pc = "scan"
    /\ LET us == calls[i].users
           k == calls[i].idx
           locals == acc[Frame(i)]
       IN  IF k > Len(us)
           THEN /\ calls' = [calls EXCEPT ![i].pc = "finish"]
                /\ acc' = acc
           ELSE LET st == ScanUser([artist_counter |-> locals.artist_counter,
                                    album_counter |-> locals.album_counter,
                                    track_counter |-> locals.track_counter,
                                    track_plays |-> locals.track_plays], us[k])
                IN  /\ calls' = [calls EXCEPT ![i].idx = k + 1]
                    /\ acc' = [acc EXCEPT
                                  ![Frame(i)].artist_counter = st.artist_counter,
                                  ![Frame(i)].album_counter = st.album_counter,
                                  ![Frame(i)].track_counter = st.track_counter,
                                  ![Frame(i)].track_plays = st.track_plays]
    /\ UNCHANGED <<users, summary, pc, fetched, text, dbVars, ioVars>>

(* the popular lists, the hidden gem and the return statement *)
CallFinish(i) ==
    /\ calls[i].pc = "finish"
    /\ LET locals == acc[Frame(i)]
       IN  calls' = [calls EXCEPT
               ![i].pc = "returned",
               ![i].result = Some(
                   [most_overlapping |-> locals.best,
                    biggest_outlier |-> locals.outlier,
                    popular_artists |-> Popular(locals.artist_counter),
                    popular_albums |-> Popular(locals.album_counter),
                    popular_tracks |-> Popular(locals.track_counter),
                    hidden_gem |-> GemLoop(locals.track_counter, locals.track_plays,
                                           Len(locals.track_plays)),
                    user_count |-> UserCount(calls[i].users)])]
    /\ acc' = acc
    /\ UNCHANGED <<users, summary, pc, fetched, text, dbVars, ioVars>>

CallStep(i) ==
    CallStart(i) \/ CallPair(i) \/ CallOutlier(i) \/ CallScan(i) \/ CallFinish(i)

NextConcurrent == Call \/ \E i \in 1..Len(calls) : CallStep(i)

SpecConcurrent == Init /\ [][NextConcurrent]_vars

(* ---------------------------------------------------------------------- *)
(* The weekly_schedules table of services/db_service.py                   *)
(* ---------------------------------------------------------------------- *)
LastfmUsernames == {"alice", "bob"}

GuildIds == {1, 2}

ChannelIds == {10, 20}

DiscordUserIds == {100, 200}

WeeklySchedule(lastfm_username, guild_id, channel_id, discord_user_id) ==
    [lastfm_username |-> lastfm_username, guild_id |-> guild_id,
     channel_id |-> channel_id, discord_user_id |-> discord_user_id]

WeeklySchedules ==
    {WeeklySchedule(n, g, c, u) :
        n \in LastfmUsernames, g \in GuildIds, c \in ChannelIds, u \in DiscordUserIds}

(* the rows that conflict with the row on the key (lastfm_username, guild_id) *)
Conflicting(table, schedule) ==
    {r \in table : /\ r.lastfm_username = schedule.lastfm_username
                   /\ r.guild_id = schedule.guild_id}

(* INSERT without an ON CONFLICT clause, on a table without the key *)
insert_weekly_schedule(table, schedule) == table \cup {schedule}

(* INSERT ... ON CONFLICT(lastfm_username, guild_id) DO UPDATE SET         *)
(* channel_id = excluded.channel_id, discord_user_id = excluded...         *)
save_weekly_schedule(table, schedule) ==
    IF Conflicting(table, schedule) = {}
    THEN table \cup {schedule}
    ELSE (table \ Conflicting(table, schedule))
         \cup {[r EXCEPT !.channel_id = schedule.channel_id,
                         !.discord_user_id = schedule.discord_user_id] :
                   r \in Conflicting(table, schedule)}

(* SELECT ... WHERE guild_id = $1 AND channel_id = $2 *)
get_weekly_schedules_for_channel(table, guild_id, channel_id) ==
    {r \in table : r.guild_id = guild_id /\ r.channel_id = channel_id}

(* SELECT DISTINCT guild_id FROM weekly_schedules *)
get_scheduled_guild_ids(table) == {r.guild_id : r \in table}

(* SELECT COUNT(DISTINCT discord_user_id) ... WHERE guild_id AND channel_id *)
get_weekly_subscriber_count(table, guild_id, channel_id) ==
    Cardinality({r.discord_user_id :
                     r \in get_weekly_schedules_for_channel(table, guild_id, channel_id)})

(* SELECT ... FROM weekly_schedules *)
get_all_weekly_schedules(table) == table

(* a DELETE that matches the user in every guild *)
DeletedInAnyGuild(table, discord_user_id, guild_id) ==
    {r \in table : r.discord_user_id = discord_user_id}

(* DELETE ... WHERE discord_user_id = $1 AND guild_id = $2 *)
Deleted(table, discord_user_id, guild_id) ==
    {r \in table : r.discord_user_id = discord_user_id /\ r.guild_id = guild_id}

(* the command status that execute() returns for the DELETE *)
DeleteStatus(table, discord_user_id, guild_id) ==
    "DELETE " \o ToString(Cardinality(Deleted(table, discord_user_id, guild_id)))

(* return result != "DELETE 0" *)
delete_weekly_schedule(table, discord_user_id, guild_id) ==
    DeleteStatus(table, discord_user_id, guild_id) # "DELETE 0"

SaveWeeklySchedule ==
    /\ \E schedule \in WeeklySchedules :
          /\ weekly_schedules' = save_weekly_schedule(weekly_schedules, schedule)
          /\ last_op' = Some([op |-> "save", args |-> schedule, returned |-> None,
                              before |-> weekly_schedules])
    /\ UNCHANGED <<users, summary, pc, fetched, text, concVars, ioVars>>

DeleteWeeklySchedule ==
    /\ \E discord_user_id \in DiscordUserIds, guild_id \in GuildIds :
          /\ weekly_schedules' =
                 weekly_schedules \ Deleted(weekly_schedules, discord_user_id, guild_id)
          /\ last_op' =
                 Some([op |-> "delete",
                       args |-> [discord_user_id |-> discord_user_id,
                                 guild_id |-> guild_id],
                       returned |-> Some(delete_weekly_schedule(
                                             weekly_schedules, discord_user_id, guild_id)),
                       before |-> weekly_schedules])
    /\ UNCHANGED <<users, summary, pc, fetched, text, concVars, ioVars>>

NextSchedules == SaveWeeklySchedule \/ DeleteWeeklySchedule

SpecSchedules == Init /\ [][NextSchedules]_vars

(* ---------------------------------------------------------------------- *)
(* services/lastfm_service.py: fetch_top_tracks and fetch_top_albums      *)
(* A JSON object is a function from its keys to its values.               *)
(* ---------------------------------------------------------------------- *)
LASTFM_ERROR_MESSAGES ==
    (6 :> "User not found. Please check the username and try again.")
    @@ (8 :> "Last.fm is experiencing issues. Please try again later.")
    @@ (10 :> "Invalid API key. Please contact the bot administrator.")
    @@ (11 :> "Last.fm is temporarily offline. Please try again later.")
    @@ (16 :> "A temporary error occurred on Last.fm. Please try again.")
    @@ (26 :> "The API key has been suspended. Please contact the bot administrator.")
    @@ (29 :> "Too many requests. Please wait a moment and try again.")

Return(value) == [kind |-> "return", value |-> value]

Raise(exc, code, message) ==
    [kind |-> "raise", exc |-> exc, code |-> code, message |-> message]

(* LASTFM_ERROR_MESSAGES.get(code, data.get("message", "An unknown ...")) *)
ErrorMessage(data) ==
    IF data.error \in DOMAIN LASTFM_ERROR_MESSAGES
    THEN LASTFM_ERROR_MESSAGES[data.error]
    ELSE IF "message" \in DOMAIN data THEN data.message
    ELSE "An unknown Last.fm error occurred."

(* an `except` clause that turns the API error into a None result *)
SwallowLastFmError(data) == Return(None)

(* _check_for_errors raises; `except LastFmError: raise` passes it on *)
OnLastFmError(data) == Raise("LastFmError", data.error, ErrorMessage(data))

(* except aiohttp.ClientError as e: ...; return None *)
OnClientError == Return(None)

(* except Exception as e: ...; return None *)
OnException == Return(None)

(* the fields pydantic requires of one track or album *)
ValidItem(item) ==
    /\ {"name", "artist", "@attr", "playcount"} \subseteq DOMAIN item
    /\ "name" \in DOMAIN item.artist
    /\ "rank" \in DOMAIN item["@attr"]

ValidList(data, outer, inner) ==
    /\ outer \in DOMAIN data
    /\ inner \in DOMAIN data[outer]
    /\ \A i \in 1..Len(data[outer][inner]) : ValidItem(data[outer][inner][i])

(* TopTracksModel.model_validate(data) *)
ParseTopTracks(data) ==
    Some([i \in 1..Len(data.toptracks.track) |->
              TrackModel(<<data.toptracks.track[i].artist.name,
                           data.toptracks.track[i].name>>,
                         data.toptracks.track[i].playcount)])

(* TopAlbumsModel.model_validate(data) *)
ParseTopAlbums(data) ==
    Some([i \in 1..Len(data.topalbums.album) |->
              AlbumModel(<<data.topalbums.album[i].artist.name,
                           data.topalbums.album[i].name>>)])

FetchFunctions == {"fetch_top_tracks", "fetch_top_albums"}

(* the body of the function on one attempt, given what the request did *)
fetch_body(fn, event) ==
    IF event.kind = "client_error" THEN OnClientError
    ELSE IF event.status # 200 THEN Return(None)
    ELSE IF ~event.is_json THEN OnClientError
    ELSE IF "error" \in DOMAIN event.body THEN OnLastFmError(event.body)
    ELSE IF fn = "fetch_top_tracks"
         THEN IF ValidList(event.body, "toptracks", "track")
              THEN Return(ParseTopTracks(event.body))
              ELSE OnException
         ELSE IF ValidList(event.body, "topalbums", "album")
              THEN Return(ParseTopAlbums(event.body))
              ELSE OnException

(* tenacity: retry_if_exception_type(ClientError), stop_after_attempt(3), *)
(* reraise=True                                                           *)
retry_decision(outcome, attempt_number) ==
    IF outcome.kind = "raise" /\ outcome.exc = "ClientError"
    THEN IF attempt_number >= StopAfterAttempt THEN "reraise" ELSE "retry"
    ELSE "finish"

JsonItem(name, artist, playcount) ==
    [name |-> name, artist |-> [name |-> artist], playcount |-> playcount]
        @@ ("@attr" :> [rank |-> 1])

JsonBodies ==
    {[error |-> 6, message |-> "User not found"],
     [error |-> 99, message |-> "Something else"],
     [toptracks |-> [track |-> <<JsonItem(TB, TA, 10)>>]],
     [topalbums |-> [album |-> <<JsonItem(TB, TA, 5)>>]],
     [toptracks |-> [track |-> <<[name |-> TB]>>]]}

(* what the HTTP request of one attempt may do *)
TransportEvents ==
    {[kind |-> "client_error", status |-> 0, is_json |-> FALSE, body |-> <<>>],
     [kind |-> "response", status |-> 200, is_json |-> FALSE, body |-> <<>>]}
    \cup {[kind |-> "response", status |-> st, is_json |-> TRUE, body |-> b] :
              st \in {200, 500}, b \in JsonBodies}

(* fetch_top_tracks(...) or fetch_top_albums(...) is called *)
FetchCall ==
    /\ lastfm.current = None
    /\ Len(lastfm.finished) < MaxFetches
    /\ \E fn \in FetchFunctions :
          lastfm' = [lastfm EXCEPT !.current = Some([fn |-> fn, attempts |-> <<>>])]
    /\ UNCHANGED <<summaryVars, dbVars, concVars, grid, own, post, dl, frame>>

(* one attempt: the request, the body of the function, tenacity's verdict *)
FetchAttempt ==
    /\ lastfm.current # None
    /\ \E event \in TransportEvents :
          LET call == lastfm.current[1]
              attempts == Append(call.attempts, event)
              outcome == fetch_body(call.fn, event)
          IN  IF retry_decision(outcome, Len(attempts)) = "retry"
              THEN lastfm' = [lastfm EXCEPT !.current = Some([call EXCEPT !.attempts = attempts])]
              ELSE lastfm' = [current |-> None,
                              finished |-> Append(lastfm.finished,
                                  [fn |-> call.fn, attempts |-> attempts,
                                   outcome |-> outcome])]
    /\ UNCHANGED <<summaryVars, dbVars, concVars, grid, own, post, dl, frame>>

NextLastfm == FetchCall \/ FetchAttempt

SpecLastfm == Init /\ [][NextLastfm]_vars

(* ---------------------------------------------------------------------- *)
(* utils/collage_utils.py: determine_dynamic_grid_size                    *)
(* ---------------------------------------------------------------------- *)
DYNAMIC_GRID_SIZES ==
    <<<<1, 1>>, <<2, 2>>, <<3, 2>>, <<3, 3>>, <<4, 3>>,
      <<4, 4>>, <<5, 4>>, <<5, 5>>, <<6, 5>>, <<6, 6>>>>

(* a threshold that does not grow with the grid *)
min_plays_flat(count) == 2

(* min_plays = 3 if cols * rows > 16 else 2 *)
min_plays(count) == IF count > 16 THEN 3 ELSE 2

(* one iteration of "for i, (cols, rows) in enumerate(DYNAMIC_GRID_SIZES)" *)
(* on the grid at position k (position 1 is enumerate's i = 0)            *)
GridStep(st, albums, k) ==
    LET cols == DYNAMIC_GRID_SIZES[k][1]
        rows == DYNAMIC_GRID_SIZES[k][2]
        count == cols * rows
        prev_count == st.best[1] * st.best[2]
    IN  IF st.broke THEN st
        ELSE IF Len(albums) < count THEN [st EXCEPT !.broke = TRUE]
        ELSE IF k > 1 /\ albums[prev_count + 1].playcount < min_plays(count)
             THEN [st EXCEPT !.broke = TRUE]
        ELSE [st EXCEPT !.best = <<cols, rows>>]

RECURSIVE GridLoop(_, _)
GridLoop(albums, k) ==
    IF k = 0 THEN [best |-> DYNAMIC_GRID_SIZES[1], broke |-> FALSE]
    ELSE GridStep(GridLoop(albums, k - 1), albums, k)

determine_dynamic_grid_size(albums) ==
    IF Len(albums) = 0 THEN <<1, 1>>
    ELSE GridLoop(albums, Len(DYNAMIC_GRID_SIZES)).best

(* top albums as Last.fm ranks them: n albums, the first a of them played *)
(* 3 times, the next up to position b twice, the rest once                *)
RankedAlbums(n, a, b) ==
    [i \in 1..n |-> [playcount |-> IF i <= a THEN 3 ELSE IF i <= b THEN 2 ELSE 1]]

AlbumLists ==
    {RankedAlbums(t[1], t[2], t[3]) :
        t \in {u \in (0..MaxAlbums) \X (0..MaxAlbums) \X (0..MaxAlbums) :
                   u[2] <= u[3] /\ u[3] <= u[1]}}

(* determine_dynamic_grid_size(albums) is called *)
DetermineGrid ==
    /\ grid = <<>>
    /\ \E albums \in AlbumLists :
          grid' = <<[albums |-> albums, result |-> determine_dynamic_grid_size(albums)]>>
    /\ UNCHANGED <<summaryVars, dbVars, concVars, lastfm, own, post, dl, frame>>

NextGrid == DetermineGrid

SpecGrid == Init /\ [][NextGrid]_vars

(* ---------------------------------------------------------------------- *)
(* The subscription commands: ScheduleWeeklyModal.on_submit and           *)
(* UnsubscribeCog.unsubscribe_weekly_collage, issued in one guild         *)
(* ---------------------------------------------------------------------- *)
JoinGuild == 1

(* what a user may type into the modal *)
TypedUsernames == {<<"alice">>, <<" ", "alice", " ">>, <<"bob">>, <<"a">>}

(* username.strip(), on a text of tokens of which " " is white space *)
RECURSIVE lstrip(_)
lstrip(s) == IF s # <<>> /\ Head(s) = " " THEN lstrip(Tail(s)) ELSE s

RECURSIVE rstrip(_)
rstrip(s) ==
    IF s # <<>> /\ s[Len(s)] = " " THEN rstrip(SubSeq(s, 1, Len(s) - 1)) ELSE s

strip(s) == rstrip(lstrip(s))

(* LASTFM_USERNAME_PATTERN.match: one word of 2 to 15 characters *)
MatchesUsernamePattern(s) == Len(s) = 1 /\ Len(s[1]) >= 2 /\ Len(s[1]) <= 15

(* sanitize_username raises ValueError for a text that does not match *)
sanitize_raises(typed) == ~MatchesUsernamePattern(strip(typed))

sanitize_username(typed) == strip(typed)[1]

(* the modal is submitted: the request is validated and the schedule saved *)
JoinSubmit(u) ==
    /\ own.joining[u] = None
    /\ \E typed \in TypedUsernames, channel_id \in ChannelIds :
          IF sanitize_raises(typed)
          THEN /\ own' = [own EXCEPT !.last[u] = [op |-> "join", ok |-> FALSE]]
               /\ UNCHANGED dbVars
          ELSE LET schedule == WeeklySchedule(sanitize_username(typed), JoinGuild,
                                              channel_id, u)
               IN  /\ weekly_schedules' = save_weekly_schedule(weekly_schedules, schedule)
                   /\ last_op' = Some([op |-> "save", args |-> schedule,
                                       returned |-> None, before |-> weekly_schedules])
                   /\ own' = [own EXCEPT !.last[u] = [op |-> "join", ok |-> TRUE],
                                         !.joining[u] = Some(schedule)]
    /\ UNCHANGED <<summaryVars, concVars, lastfm, grid, post, dl, frame>>

(* the rest of on_submit: the preference is saved, the subscribers are    *)
(* counted and the two messages are sent                                  *)
JoinFinish(u) ==
    /\ own.joining[u] # None
    /\ own' = [own EXCEPT
                  !.user_preferences[u] = Some(own.joining[u][1].lastfm_username),
                  !.joining[u] = None]
    /\ UNCHANGED <<summaryVars, dbVars, concVars, lastfm, grid, post, dl, frame>>

(* /unsubscribe-weekly-collage *)
Unsubscribe(u) ==
    /\ weekly_schedules' = weekly_schedules \ Deleted(weekly_schedules, u, JoinGuild)
    /\ last_op' = Some([op |-> "delete",
                        args |-> [discord_user_id |-> u, guild_id |-> JoinGuild],
                        returned |-> Some(delete_weekly_schedule(
                                              weekly_schedules, u, JoinGuild)),
                        before |-> weekly_schedules])
    /\ own' = [own EXCEPT !.last[u] =
                  [op |-> "unsubscribe",
                   ok |-> delete_weekly_schedule(weekly_schedules, u, JoinGuild)]]
    /\ UNCHANGED <<summaryVars, concVars, lastfm, grid, post, dl, frame>>

NextSubscriptions ==
    \E u \in DiscordUserIds : JoinSubmit(u) \/ JoinFinish(u) \/ Unsubscribe(u)

SpecSubscriptions == Init /\ [][NextSubscriptions]_vars

(* ---------------------------------------------------------------------- *)
(* The weekly run of one channel: ScheduledCollageCog._post_channel_      *)
(* collages and _post_single_collage                                      *)
(* ---------------------------------------------------------------------- *)
ScheduleUsernames == {"alice", "bob", "carol", "dave"}

(* the schedules of one (guild_id, channel_id) group, in the order of     *)
(* get_all_weekly_schedules; the username is unique within a guild        *)
ChannelSchedules ==
    {s \in UNION {[1..n -> ScheduleUsernames] : n \in 1..MaxSchedules} :
        \A i, j \in 1..Len(s) : i # j => s[i] # s[j]}

MemberDisplayName ==
    [u \in ScheduleUsernames |->
        CASE u = "alice" -> "A" [] u = "bob" -> "B" [] u = "carol" -> "C"
          [] OTHER -> "D"]

(* what the outside world does during one _post_single_collage:           *)
(* fetch_member succeeds or not; the gather of the three fetches raises   *)
(* LastFmError, returns nothing to show, or returns albums or tracks;     *)
(* send_collage_from_data delivers, fails before channel.send, or fails   *)
(* in channel.send                                                        *)
PostEnvs ==
    {[member |-> m, lastfm |-> l, collage |-> c] :
        m \in BOOLEAN, l \in {"error", "empty", "data"},
        c \in {"ok", "generate_failed", "send_failed"}}

(* display_name = member.display_name if member else lastfm_username *)
display_name_of(username, env) ==
    IF env.member THEN MemberDisplayName[username] ELSE username

CollageMessage(display_name, delivered) ==
    [kind |-> "collage", title |-> display_name, delivered |-> delivered,
     description |-> <<>>, footer |-> 0]

SummaryMessage(user_data_list, delivered) ==
    [kind |-> "summary", title |-> "Weekly Group Summary", delivered |-> delivered,
     description |-> format_summary_text(compute_group_summary(user_data_list)),
     footer |-> compute_group_summary(user_data_list).user_count]

(* _post_single_collage: what it sends, and whether it raises or returns  *)
(* the listening data                                                     *)
post_single_collage(username, env) ==
    LET display_name == display_name_of(username, env)
        has_albums_or_tracks == env.lastfm = "data"
        listening_data ==
            UserListeningData(display_name,
                              IF has_albums_or_tracks THEN <<TA>> ELSE <<>>,
                              <<>>, <<>>)
    IN  IF env.lastfm = "error"
        THEN [raised |-> TRUE, sends |-> <<>>, listening_data |-> None]
        ELSE IF has_albums_or_tracks /\ env.collage = "generate_failed"
        THEN [raised |-> TRUE, sends |-> <<>>, listening_data |-> None]
        ELSE IF has_albums_or_tracks /\ env.collage = "send_failed"
        THEN [raised |-> TRUE, sends |-> <<CollageMessage(display_name, FALSE)>>,
              listening_data |-> None]
        ELSE [raised |-> FALSE,
              sends |-> IF has_albums_or_tracks
                        THEN <<CollageMessage(display_name, TRUE)>> ELSE <<>>,
              listening_data |-> Some(listening_data)]

(* an exception of one schedule ends the whole run *)
abort_on_exception == "raised"

(* except Exception: logger.error(...); continue *)
on_schedule_exception == "loop"

(* a summary for any user at all *)
any_for_summary(user_data_list) == Len(user_data_list) >= 1

(* if len(user_data_list) >= 2 *)
enough_for_summary(user_data_list) == Len(user_data_list) >= 2

(* the guild and the channel are looked up; without either the run ends *)
PostChannelStart ==
    /\ post.pc = "idle"
    /\ \E schedules \in ChannelSchedules, guild \in BOOLEAN, channel \in BOOLEAN :
          post' = [post EXCEPT !.schedules = schedules,
                               !.pc = IF guild /\ channel THEN "loop" ELSE "returned"]
    /\ UNCHANGED <<summaryVars, dbVars, concVars, lastfm, grid, own, dl, frame>>

(* one turn of "for schedule in schedules" *)
PostSingleCollage ==
    /\ post.pc = "loop"
    /\ post.i <= Len(post.schedules)
    /\ \E env \in PostEnvs :
          LET schedule == post.schedules[post.i]
              r == post_single_collage(schedule, env)
          IN  post' = [post EXCEPT
                  !.attempted = Append(@, schedule),
                  !.outcomes = Append(@, IF r.raised THEN "raised" ELSE "returned"),
                  !.sends = @ \o r.sends,
                  !.user_data_list =
                      IF ~r.raised /\ r.listening_data # None
                      THEN Append(@, r.listening_data[1]) ELSE @,
                  !.i = IF r.raised /\ on_schedule_exception # "loop" THEN @ ELSE @ + 1,
                  !.pc = IF r.raised THEN on_schedule_exception ELSE "loop"]
    /\ UNCHANGED <<summaryVars, dbVars, concVars, lastfm, grid, own, dl, frame>>

(* after the loop: the summary embed for two or more listening data;      *)
(* channel.send delivers it or raises                                     *)
PostSummary ==
    /\ post.pc = "loop"
    /\ post.i > Len(post.schedules)
    /\ IF enough_for_summary(post.user_data_list)
       THEN \E delivered \in BOOLEAN :
               post' = [post EXCEPT
                   !.sends = Append(@, SummaryMessage(post.user_data_list, delivered)),
                   !.pc = IF delivered THEN "done" ELSE "raised"]
       ELSE post' = [post EXCEPT !.pc = "done"]
    /\ UNCHANGED <<summaryVars, dbVars, concVars, lastfm, grid, own, dl, frame>>

NextPost == PostChannelStart \/ PostSingleCollage \/ PostSummary

SpecPost == Init /\ [][NextPost]_vars

(* ---------------------------------------------------------------------- *)
(* ImageCache and download_album_images                                   *)
(* ---------------------------------------------------------------------- *)
(* what earlier runs may have left under the key of an url *)
EntriesOf(url) ==
    {NoEntry,
     [value |-> _NEGATIVE_SENTINEL, ttl |-> NEGATIVE_CACHE_TTL],
     [value |-> tobytes(TileOf(url)), ttl |-> IMAGE_CACHE_TTL]}

RedisContents ==
    {r \in [CacheKeys -> UNION {EntriesOf(u) : u \in ImageUrls}] :
        \A u \in ImageUrls : r[_cache_key(u)] \in EntriesOf(u)}

(* a negative entry is looked up like a key that is not set *)
from_cached_retrying(cached) ==
    IF cached = None \/ cached = _NEGATIVE_SENTINEL THEN MISS
    ELSE frombytes(cached)

(* the loop of get_many over the values of MGET *)
from_cached(cached) ==
    IF cached = None THEN MISS
    ELSE IF cached = _NEGATIVE_SENTINEL THEN None
    ELSE frombytes(cached)

(* ImageCache.get_many; a failing MGET makes every url a miss *)
get_many(redis, urls, mget_ok) ==
    IF ~mget_ok
    THEN [n \in 1..Len(urls) |-> MISS]
    ELSE [n \in 1..Len(urls) |-> from_cached(redis[_cache_key(urls[n])].value)]

(* ImageCache.put; a failing SET is logged and changes nothing *)
put(redis, url, img, set_ok) ==
    IF ~set_ok THEN redis
    ELSE IF img # None
    THEN [redis EXCEPT ![_cache_key(url)] =
              [value |-> tobytes(img), ttl |-> IMAGE_CACHE_TTL]]
    ELSE [redis EXCEPT ![_cache_key(url)] =
              [value |-> _NEGATIVE_SENTINEL, ttl |-> NEGATIVE_CACHE_TTL]]

(* the SET that put issues *)
PutCall(url, img, set_ok) ==
    [url |-> url,
     value |-> IF img # None THEN tobytes(img) ELSE _NEGATIVE_SENTINEL,
     ttl |-> IF img # None THEN IMAGE_CACHE_TTL ELSE NEGATIVE_CACHE_TTL,
     ok |-> set_ok]

(* what the web does for one _download_image: the url or one of its       *)
(* fallback sizes gives a cover, every size gives no data, the request    *)
(* fails with ClientError after the retries, or the data is no image      *)
DownloadEvents == {"image", "fallback_image", "no_data", "client_error", "bad_image"}

(* _download_image: the tile, or None for every failure *)
_download_image(url, event) ==
    IF event \in {"image", "fallback_image"} THEN TileOf(url) ELSE None

(* [(i, a) for i, a in enumerate(albums) if a.image_url], as (i, url) *)
albums_with_urls(albums) ==
    LET indexed == [n \in 1..Len(albums) |-> <<n, albums[n].image_url>>]
        HasUrl(p) == p[2] # None
    IN  SelectSeq(indexed, HasUrl)

(* zip(albums_with_urls, urls, cached_results), as (i, url, cached) *)
zip_cached(with_urls, cached_results) ==
    [n \in 1..Len(with_urls) |-> <<with_urls[n][1], with_urls[n][2], cached_results[n]>>]

(* the (i, url) of the looked up urls that are misses, lines 177-179 *)
misses(with_urls, cached_results) ==
    LET IsMiss(t) == t[3] = MISS
        missed == SelectSeq(zip_cached(with_urls, cached_results), IsMiss)
    IN  [n \in 1..Len(missed) |-> <<missed[n][1], missed[n][2]>>]

UrlsOf(pairs) == [n \in 1..Len(pairs) |-> pairs[n][2]]

(* images[k] = img, by the position in to_download *)
StoreIndexByPosition(to_download, k) == k

(* images[i] = img, for (i, url) of to_download *)
StoreIndex(to_download, k) == to_download[k][1]

(* lines 167-188: the lookup of every url and the list to download *)
DlStart ==
    /\ dl.pc = "idle"
    /\ \E albums \in UNION {[1..n -> CoverAlbums] : n \in 0..MaxCovers},
          cache \in BOOLEAN, mget_ok \in BOOLEAN, redis \in RedisContents :
          /\ cache \/ (mget_ok /\ redis = NoRedis)
          /\ LET with_urls == albums_with_urls(albums)
                 urls == UrlsOf(with_urls)
                 cached_results == get_many(redis, urls, mget_ok)
                 to_download == IF cache THEN misses(with_urls, cached_results)
                                ELSE with_urls
                 images == [n \in 1..Len(albums) |->
                               IF cache /\ \E m \in 1..Len(with_urls) :
                                              /\ with_urls[m][1] = n
                                              /\ cached_results[m] \notin {MISS, None}
                               THEN cached_results[
                                        CHOOSE m \in 1..Len(with_urls) :
                                            with_urls[m][1] = n]
                               ELSE None]
             IN  dl' = [dl EXCEPT !.albums = albums, !.cache = cache,
                                  !.mget_ok = mget_ok,
                                  !.redis0 = redis, !.redis = redis,
                                  !.looked_up = IF cache THEN urls ELSE <<>>,
                                  !.images = images,
                                  !.to_download = to_download,
                                  !.pc = IF to_download # <<>> THEN "download"
                                         ELSE "return"]
    /\ UNCHANGED <<summaryVars, dbVars, concVars, lastfm, grid, own, post, frame>>

(* one _limited_download of the gather, lines 193-199 *)
DlDownload ==
    /\ dl.pc = "download"
    /\ \E event \in DownloadEvents :
          LET n == Len(dl.downloaded) + 1
              img == _download_image(dl.to_download[n][2], event)
          IN  dl' = [dl EXCEPT !.downloaded = Append(@, img),
                               !.pc = IF n = Len(dl.to_download) THEN "store"
                                      ELSE "download"]
    /\ UNCHANGED <<summaryVars, dbVars, concVars, lastfm, grid, own, post, frame>>

(* one turn of the loop of lines 201-204 *)
DlStore ==
    /\ dl.pc = "store"
    /\ \E set_ok \in BOOLEAN :
          LET url == dl.to_download[dl.k][2]
              img == dl.downloaded[dl.k]
          IN  /\ dl.cache \/ set_ok
              /\ dl' = [dl EXCEPT
                     !.images[StoreIndex(dl.to_download, dl.k)] = img,
                     !.redis = IF dl.cache THEN put(@, url, img, set_ok) ELSE @,
                     !.puts = IF dl.cache THEN Append(@, PutCall(url, img, set_ok))
                              ELSE @,
                     !.k = @ + 1,
                     !.pc = IF dl.k = Len(dl.to_download) THEN "return" ELSE "store"]
    /\ UNCHANGED <<summaryVars, dbVars, concVars, lastfm, grid, own, post, frame>>

(* lines 206-210: return images *)
DlReturn ==
    /\ dl.pc = "return"
    /\ dl' = [dl EXCEPT !.pc = "returned"]
    /\ UNCHANGED <<summaryVars, dbVars, concVars, lastfm, grid, own, post, frame>>

NextDownload == DlStart \/ DlDownload \/ DlStore \/ DlReturn

SpecDownload == Init /\ [][NextDownload]_vars

(* ---------------------------------------------------------------------- *)
(* What the calls of summary_service do to the objects they are given     *)
(* ---------------------------------------------------------------------- *)
(* x &= y: the intersection replaces the content of the left operand *)
set_intersection_update(x, y) ==
    LET InY(e) == e \in ToSet(y)
    IN  [result |-> SelectSeq(x, InY), left |-> SelectSeq(x, InY)]

(* x & y: a new set, the left operand keeps its content *)
set_intersection(x, y) ==
    LET InY(e) == e \in ToSet(y)
    IN  [result |-> SelectSeq(x, InY), left |-> x]

(* lst[:n]: a new list, the operand keeps its content *)
list_slice(lst, n) == [result |-> FirstN(lst, n), operand |-> lst]

(* profile a after compute_pair_overlap(a, b): the two intersections are  *)
(* taken on a.artists and a.albums, and on fresh sets of the track keys   *)
after_pair_overlap(a, b) ==
    [a EXCEPT !.artists = set_intersection(a.artists, b.artists).left,
              !.albums = set_intersection(a.albums, b.albums).left]

(* the list after the first k pairs of combinations(users, 2) *)
RECURSIVE after_pairs(_, _)
after_pairs(us, k) ==
    IF k = 0 THEN us
    ELSE LET prev == after_pairs(us, k - 1)
             p == combinations(Len(us))[k]
         IN  [prev EXCEPT ![p[1]] = after_pair_overlap(prev[p[1]], prev[p[2]])]

(* the list after compute_group_summary(users): the loops over users,     *)
(* u.artists, u.albums and u.tracks.items() only read                     *)
after_group_summary(us) == after_pairs(us, Len(combinations(Len(us))))

(* the summary after format_summary_text(summary) *)
after_format(s) ==
    [s EXCEPT !.popular_artists = list_slice(s.popular_artists, TopN).operand,
              !.popular_albums = list_slice(s.popular_albums, TopN).operand,
              !.popular_tracks = list_slice(s.popular_tracks, TopN).operand]

FrameProfiles ==
    {UserListeningData(n, ar, al, tr) :
        n \in {"A", "B"}, ar \in {<<>>, <<TA>>, <<TA, TB>>},
        al \in {<<>>, <<K3>>}, tr \in {<<>>, <<<<K3, 11>>>>}}

FrameInputs == UNION {[1..n -> FrameProfiles] : n \in 0..2}

(* a caller builds a profile list *)
FrameInput ==
    /\ frame.pc = "idle"
    /\ \E us \in FrameInputs :
          frame' = [frame EXCEPT !.pc = "ready", !.before = us, !.users = us]
    /\ UNCHANGED <<summaryVars, dbVars, concVars, lastfm, grid, own, post, dl>>

(* compute_pair_overlap(users[i], users[j]) *)
FramePairOverlap ==
    /\ frame.pc = "ready"
    /\ Len(frame.invocations) < MaxInvocations
    /\ \E i, j \in 1..Len(frame.users) :
          /\ i # j
          /\ frame' = [frame EXCEPT
                !.users[i] = after_pair_overlap(frame.users[i], frame.users[j]),
                !.invocations = Append(@,
                    [fn |-> "compute_pair_overlap", args |-> <<i, j>>,
                     value |-> compute_pair_overlap(frame.users[i], frame.users[j])])]
    /\ UNCHANGED <<summaryVars, dbVars, concVars, lastfm, grid, own, post, dl>>

(* summary = compute_group_summary(users) *)
FrameSummarize ==
    /\ frame.pc = "ready"
    /\ Len(frame.invocations) < MaxInvocations
    /\ frame' = [frame EXCEPT
          !.users = after_group_summary(frame.users),
          !.summary = Some(compute_group_summary(frame.users)),
          !.returned = Some(compute_group_summary(frame.users)),
          !.invocations = Append(@,
              [fn |-> "compute_group_summary", args |-> <<>>,
               value |-> compute_group_summary(frame.users)])]
    /\ UNCHANGED <<summaryVars, dbVars, concVars, lastfm, grid, own, post, dl>>

(* text = format_summary_text(summary) *)
FrameFormat ==
    /\ frame.pc = "ready"
    /\ Len(frame.invocations) < MaxInvocations
    /\ frame.summary # None
    /\ frame' = [frame EXCEPT
          !.summary = Some(after_format(frame.summary[1])),
          !.invocations = Append(@,
              [fn |-> "format_summary_text", args |-> <<>>,
               value |-> format_summary_text(frame.summary[1])])]
    /\ UNCHANGED <<summaryVars, dbVars, concVars, lastfm, grid, own, post, dl>>

NextFrame == FrameInput \/ FramePairOverlap \/ FrameSummarize \/ FrameFormat

SpecFrame == Init /\ [][NextFrame]_vars

(* ---------------------------------------------------------------------- *)
(* Vocabulary of the properties                                           *)
(* ---------------------------------------------------------------------- *)
Done == pc = "done"

Result == summary[1]

UserPairs == {p \in (1..Len(users)) \X (1..Len(users)) : p[1] < p[2]}

PairOverlapOf(p) == compute_pair_overlap(users[p[1]], users[p[2]])

PairTotal(p) == total_shared(PairOverlapOf(p))

Earlier(p, q) == p[1] < q[1] \/ (p[1] = q[1] /\ p[2] < q[2])

IsMaxPair(p) == \A q \in UserPairs : PairTotal(q) <= PairTotal(p)

FirstMaxPair ==
    CHOOSE p \in UserPairs :
        IsMaxPair(p) /\ \A q \in UserPairs : IsMaxPair(q) /\ q # p => Earlier(p, q)

(* the sum of total_shared over the pairs that profile i takes part in *)
RECURSIVE ProfileScoreUpTo(_, _)
ProfileScoreUpTo(i, k) ==
    IF k = 0 THEN 0
    ELSE ProfileScoreUpTo(i, k - 1)
         + (IF k = i THEN 0
            ELSE IF k < i THEN PairTotal(<<k, i>>) ELSE PairTotal(<<i, k>>))

ProfileScore(i) == ProfileScoreUpTo(i, Len(users))

AllProfileScoresEqual ==
    \A i, j \in 1..Len(users) : ProfileScore(i) = ProfileScore(j)

(* C1: when some pair shares something, most_overlapping is the overlap of *)
(* the first pair, in combinations order, that reaches the maximum         *)
(* total_shared; a later pair with an equal total never replaces it.       *)
C1_FirstMaxPairWins ==
    (Done /\ \E p \in UserPairs : PairTotal(p) > 0)
        => Result.most_overlapping = Some(PairOverlapOf(FirstMaxPair))

(* two different pairs tie at the maximum and the first one was returned *)
C1_Witness ==
    /\ Done
    /\ \E p, q \in UserPairs :
        /\ Earlier(p, q) /\ IsMaxPair(p) /\ IsMaxPair(q) /\ PairTotal(p) > 0
        /\ PairOverlapOf(p) # PairOverlapOf(q)
        /\ p = FirstMaxPair
        /\ Result.most_overlapping = Some(PairOverlapOf(p))

(* C2: most_overlapping is None exactly when there are fewer than two      *)
(* profiles or no pair shares anything; otherwise its total_shared is      *)
(* positive; and the pairs compared never pair a profile with itself.      *)
C2_NoneIffNoOverlap ==
    Done =>
        /\ (Result.most_overlapping = None)
               <=> (Len(users) < 2 \/ \A p \in UserPairs : PairTotal(p) = 0)
        /\ Result.most_overlapping # None
               => total_shared(Result.most_overlapping[1]) > 0
        /\ \A k \in 1..Len(combinations(Len(users))) :
               combinations(Len(users))[k][1] < combinations(Len(users))[k][2]

(* two non-empty profiles that share nothing: no pair is reported *)
C2_Witness ==
    /\ Done
    /\ Len(users) >= 2
    /\ \A i \in 1..Len(users) :
           users[i].artists # <<>> \/ users[i].albums # <<>> \/ users[i].tracks # <<>>
    /\ \A p \in UserPairs : PairTotal(p) = 0
    /\ Result.most_overlapping = None

(* C3: with N >= 2 profiles whose per-profile cumulative scores are not    *)
(* all equal, biggest_outlier is the display name of a profile whose       *)
(* cumulative score is minimal among the N profiles.                       *)
C3_OutlierHasMinProfileScore ==
    (Done /\ Len(users) >= 2 /\ ~AllProfileScoresEqual)
        => /\ Result.biggest_outlier # None
           /\ \E i \in 1..Len(users) :
                /\ users[i].display_name = Result.biggest_outlier[1]
                /\ \A j \in 1..Len(users) : ProfileScore(i) <= ProfileScore(j)

(* C4: when every profile has the same accumulated overlap score (also     *)
(* when all are zero, and when there are fewer than two profiles),         *)
(* biggest_outlier is None.                                                *)
C4_AllTiedNoOutlier ==
    (Done /\ AllProfileScoresEqual) => Result.biggest_outlier = None

Categories == {"artists", "albums", "tracks"}

(* the items of one profile in a category, in iteration order *)
ItemsOf(u, cat) ==
    IF cat = "artists" THEN u.artists
    ELSE IF cat = "albums" THEN u.albums
    ELSE KeysOf(u.tracks)

(* the label under which an item is listed *)
ItemLabel(cat, item) == IF cat = "artists" THEN item ELSE Label(item)

PopularList(cat) ==
    IF cat = "artists" THEN Result.popular_artists
    ELSE IF cat = "albums" THEN Result.popular_albums
    ELSE Result.popular_tracks

AllItems(cat) == UNION {ToSet(ItemsOf(users[i], cat)) : i \in 1..Len(users)}

(* the profiles that contain the item *)
Holders(cat, item) ==
    {i \in 1..Len(users) : item \in ToSet(ItemsOf(users[i], cat))}

(* the profiles that contain an item listed under the label *)
LabelHolders(cat, label) ==
    {i \in 1..Len(users) :
        \E item \in ToSet(ItemsOf(users[i], cat)) : ItemLabel(cat, item) = label}

(* display names of the profiles holding the label, in input order *)
RECURSIVE ListenerNamesUpTo(_, _, _)
ListenerNamesUpTo(cat, label, k) ==
    IF k = 0 THEN <<>>
    ELSE IF k \in LabelHolders(cat, label)
         THEN Append(ListenerNamesUpTo(cat, label, k - 1), users[k].display_name)
         ELSE ListenerNamesUpTo(cat, label, k - 1)

ListenerNames(cat, label) == ListenerNamesUpTo(cat, label, Len(users))

(* where the scan over the profiles meets the label first *)
FirstHolder(cat, label) ==
    CHOOSE i \in LabelHolders(cat, label) : \A j \in LabelHolders(cat, label) : i <= j

FirstPosition(cat, label) ==
    LET items == ItemsOf(users[FirstHolder(cat, label)], cat)
    IN  CHOOSE k \in 1..Len(items) :
            /\ ItemLabel(cat, items[k]) = label
            /\ \A m \in 1..(k - 1) : ItemLabel(cat, items[m]) # label

MetBefore(cat, l1, l2) ==
    \/ FirstHolder(cat, l1) < FirstHolder(cat, l2)
    \/ /\ FirstHolder(cat, l1) = FirstHolder(cat, l2)
       /\ FirstPosition(cat, l1) < FirstPosition(cat, l2)

(* C5: every entry of popular_artists, popular_albums and popular_tracks   *)
(* is an item (artist name, (artist, album) pair, (artist, track) key)     *)
(* contained in at least two distinct input profiles.                      *)
C5_PopularHasTwoListeners ==
    Done =>
        \A cat \in Categories : \A k \in 1..Len(PopularList(cat)) :
            \E item \in AllItems(cat) :
                /\ ItemLabel(cat, item) = PopularList(cat)[k][1]
                /\ Cardinality(Holders(cat, item)) >= 2

(* C6: every popular entry is a pair (item_label, listeners) whose second  *)
(* component is the list of the display names of exactly the profiles that *)
(* contain the item, in input order, each profile named once.              *)
C6_PopularCarriesListenerNames ==
    Done =>
        \A cat \in Categories : \A k \in 1..Len(PopularList(cat)) :
            /\ PopularList(cat)[k][2].type = "list"
            /\ PopularList(cat)[k][2].val
                   = ListenerNames(cat, PopularList(cat)[k][1])

(* C7: every popular list is ordered by non-increasing number of           *)
(* listeners, and items with the same number of listeners keep the order   *)
(* in which the scan over the profiles met them first.                     *)
C7_PopularSortedStable ==
    Done =>
        \A cat \in Categories : \A k, m \in 1..Len(PopularList(cat)) :
            k < m =>
                LET l1 == PopularList(cat)[k][1]
                    l2 == PopularList(cat)[m][1]
                    n1 == Cardinality(LabelHolders(cat, l1))
                    n2 == Cardinality(LabelHolders(cat, l2))
                IN  n1 > n2 \/ (n1 = n2 /\ MetBefore(cat, l1, l2))

(* positions <<i, k>> of the tracks whose key is in exactly one profile *)
TrackPositions ==
    UNION {{<<i, k>> : k \in 1..Len(users[i].tracks)} : i \in 1..Len(users)}

SingleListenerTracks ==
    {t \in TrackPositions :
        \A j \in 1..Len(users) :
            users[t[1]].tracks[t[2]][1] \in TrackKeys(users[j]) => j = t[1]}

PlaycountAt(t) == users[t[1]].tracks[t[2]][2]

(* single-listener tracks played more than ten times *)
GemCandidates == {t \in SingleListenerTracks : PlaycountAt(t) > 10}

GemOf(t) ==
    <<users[t[1]].display_name, Label(users[t[1]].tracks[t[2]][1]), PlaycountAt(t)>>

TopGemCandidates ==
    {t \in GemCandidates : \A q \in GemCandidates : PlaycountAt(q) <= PlaycountAt(t)}

FirstTopGemCandidate ==
    CHOOSE t \in TopGemCandidates :
        \A q \in TopGemCandidates : q # t => Earlier(t, q)

(* C8: a returned hidden_gem has playcount > 10, comes from a track key    *)
(* present in exactly one profile, names that profile and carries that     *)
(* profile's playcount for the track.                                      *)
C8_HiddenGemIsSingleListener ==
    (Done /\ Result.hidden_gem # None) =>
        /\ Result.hidden_gem[1][3] > 10
        /\ \E t \in SingleListenerTracks : GemOf(t) = Result.hidden_gem[1]

(* a gem was returned although another profile plays a shared track more *)
C8_Witness ==
    /\ Done
    /\ Len(users) >= 2
    /\ Result.hidden_gem # None
    /\ \E i \in 1..Len(users) : \E k \in 1..Len(users[i].tracks) :
        /\ <<i, k>> \notin SingleListenerTracks
        /\ users[i].tracks[k][2] > Result.hidden_gem[1][3]

(* C9: for N >= 1, hidden_gem is None exactly when no track key held by    *)
(* exactly one profile has playcount > 10; otherwise its playcount is the  *)
(* maximum playcount over those tracks.                                    *)
C9_HiddenGemIffCandidate ==
    (Done /\ Len(users) >= 1) =>
        /\ (Result.hidden_gem = None) <=> (GemCandidates = {})
        /\ Result.hidden_gem # None =>
               \E t \in TopGemCandidates : PlaycountAt(t) = Result.hidden_gem[1][3]

(* C10: when several single-listener tracks with playcount > 10 share the  *)
(* maximum playcount, hidden_gem is the one the scan meets first.          *)
C10_FirstGemWinsTies ==
    (Done /\ Cardinality(TopGemCandidates) >= 2) =>
        Result.hidden_gem = Some(GemOf(FirstTopGemCandidate))

(* ---------------------------------------------------------------------- *)
(* C12: an empty list gives user_count 0, no pair, no outlier, no hidden  *)
(* gem and three empty popular lists; any other list gives user_count     *)
(* equal to the number of profiles passed in                              *)
(* ---------------------------------------------------------------------- *)
EmptySummary ==
    /\ Result.user_count = 0
    /\ Result.most_overlapping = None
    /\ Result.biggest_outlier = None
    /\ Result.popular_artists = <<>>
    /\ Result.popular_albums = <<>>
    /\ Result.popular_tracks = <<>>
    /\ Result.hidden_gem = None

C12_UserCountIsListLength ==
    Done => /\ (users = <<>> => EmptySummary)
            /\ Result.user_count = Len(users)

(* three profiles, two of them under one display name *)
C12_Witness ==
    /\ Done
    /\ Len(users) = 3
    /\ users[1].display_name = users[3].display_name
    /\ Result.user_count = 3

(* ---------------------------------------------------------------------- *)
(* C13: compute_pair_overlap(a, b) names a and b in argument order, its   *)
(* shared sets hold exactly the items both profiles hold (tracks by key,  *)
(* whatever the playcounts), and total_shared is the sum of their sizes   *)
(* ---------------------------------------------------------------------- *)
HasArtist(u, x) == \E i \in 1..Len(u.artists) : u.artists[i] = x

HasAlbum(u, x) == \E i \in 1..Len(u.albums) : u.albums[i] = x

HasTrack(u, x) == \E i \in 1..Len(u.tracks) : u.tracks[i][1] = x

IsOverlapOf(o, a, b) ==
    /\ o.user_a = a.display_name
    /\ o.user_b = b.display_name
    /\ \A x \in {TA, TB, TAA} :
          x \in o.shared_artists <=> HasArtist(a, x) /\ HasArtist(b, x)
    /\ o.shared_artists \subseteq {TA, TB, TAA}
    /\ \A x \in {K1, K2, K3} :
          /\ x \in o.shared_albums <=> HasAlbum(a, x) /\ HasAlbum(b, x)
          /\ x \in o.shared_tracks <=> HasTrack(a, x) /\ HasTrack(b, x)
    /\ o.shared_albums \subseteq {K1, K2, K3}
    /\ o.shared_tracks \subseteq {K1, K2, K3}
    /\ total_shared(o) =
          Cardinality({x \in {TA, TB, TAA} : HasArtist(a, x) /\ HasArtist(b, x)})
          + Cardinality({x \in {K1, K2, K3} : HasAlbum(a, x) /\ HasAlbum(b, x)})
          + Cardinality({x \in {K1, K2, K3} : HasTrack(a, x) /\ HasTrack(b, x)})

C13_PairOverlapIsIntersection ==
    /\ \A i, j \in 1..Len(users) :
          IsOverlapOf(compute_pair_overlap(users[i], users[j]),
                      users[i], users[j])
    /\ Done /\ Result.most_overlapping # None =>
          \E p \in UserPairs :
              IsOverlapOf(Result.most_overlapping[1],
                          users[p[1]], users[p[2]])

(* the returned pair is named "B" then "A" and shares a track the two     *)
(* played a different number of times                                     *)
C13_Witness ==
    /\ Done
    /\ Len(users) = 2
    /\ Result.most_overlapping # None
    /\ Result.most_overlapping[1].user_a = "B"
    /\ Result.most_overlapping[1].user_b = "A"
    /\ \E i \in 1..Len(users[1].tracks), j \in 1..Len(users[2].tracks) :
          /\ users[1].tracks[i][1] = users[2].tracks[j][1]
          /\ users[1].tracks[i][2] # users[2].tracks[j][2]
          /\ users[1].tracks[i][1] \in Result.most_overlapping[1].shared_tracks

(* ---------------------------------------------------------------------- *)
(* C14: extract_listening_data raises for no combination of absent top    *)
(* lists; an absent list gives an empty set or map, a present one is      *)
(* extracted whatever the others are, and display_name is passed through  *)
(* ---------------------------------------------------------------------- *)
NoDuplicates(s) == \A i, j \in 1..Len(s) : s[i] = s[j] => i = j

(* the playcount of the last fetched track with this key *)
LastPlaycount(tracks, key) ==
    LET at == {i \in 1..Len(tracks) : <<tracks[i].artist, tracks[i].name>> = key}
        last == CHOOSE i \in at : \A j \in at : j <= i
    IN  tracks[last].playcount

ExtractedFrom(u, f) ==
    /\ u.display_name = f.display_name
    /\ NoDuplicates(u.artists)
    /\ NoDuplicates(u.albums)
    /\ NoDuplicates(KeysOf(u.tracks))
    /\ IF f.top_artists = None THEN u.artists = <<>>
       ELSE \A n \in {TA, TB, TAA} :
                HasArtist(u, n) <=>
                    \E i \in 1..Len(f.top_artists[1]) : f.top_artists[1][i].name = n
    /\ IF f.top_albums = None THEN u.albums = <<>>
       ELSE \A k \in {K1, K2, K3} :
                HasAlbum(u, k) <=>
                    \E i \in 1..Len(f.top_albums[1]) :
                        /\ f.top_albums[1][i].artist = k[1]
                        /\ f.top_albums[1][i].name = k[2]
    /\ IF f.top_tracks = None THEN u.tracks = <<>>
       ELSE \A k \in {K1, K2, K3} :
                /\ HasTrack(u, k) <=>
                       \E i \in 1..Len(f.top_tracks[1]) :
                           /\ f.top_tracks[1][i].artist = k[1]
                           /\ f.top_tracks[1][i].name = k[2]
                /\ HasTrack(u, k) =>
                       DictGet(u.tracks, k) = LastPlaycount(f.top_tracks[1], k)

C14_ExtractToleratesNone ==
    /\ pc # "raised"
    /\ \A i \in 1..Len(fetched) : ExtractedFrom(users[i], fetched[i])

(* the artists and the tracks were fetched, the albums were not *)
C14_Witness ==
    /\ Len(fetched) = 2
    /\ fetched[1].top_artists = None
    /\ fetched[1].top_albums = None
    /\ fetched[1].top_tracks = None
    /\ users[1] = UserListeningData(fetched[1].display_name, <<>>, <<>>, <<>>)
    /\ fetched[2].top_artists # None
    /\ fetched[2].top_albums = None
    /\ fetched[2].top_tracks # None
    /\ users[2].artists # <<>>
    /\ users[2].albums = <<>>
    /\ users[2].tracks # <<>>

(* ---------------------------------------------------------------------- *)
(* Vocabulary of the rendered text                                        *)
(* ---------------------------------------------------------------------- *)
Formatted == pc = "formatted"

Text == text[1]

Occurs(token) == \E i \in 1..Len(Text) : Text[i] = token

(* the tokens that follow the heading on its line *)
LineAfter(heading) ==
    LET start == CHOOSE i \in 1..Len(Text) : Text[i] = heading
        breaks == {j \in (start + 1)..Len(Text) : Text[j] = "\n"}
        stop == IF breaks = {} THEN Len(Text) + 1
                ELSE CHOOSE j \in breaks : \A k \in breaks : j <= k
    IN  SubSeq(Text, start + 1, stop - 1)

HeadingOf(cat) ==
    IF cat = "artists" THEN ArtistsHeading
    ELSE IF cat = "albums" THEN AlbumsHeading
    ELSE TracksHeading

(* an entry ends where its parenthesis closes *)
Closes(line) == {i \in 1..Len(line) : line[i] = ")"}

KthClose(line, k) ==
    CHOOSE i \in Closes(line) : Cardinality({j \in Closes(line) : j <= i}) = k

RenderedEntry(line, k) ==
    SubSeq(line, IF k = 1 THEN 1 ELSE KthClose(line, k - 1) + 1, KthClose(line, k))

Contains(s, part) ==
    \E p \in 1..(Len(s) - Len(part) + 1) : SubSeq(s, p, p + Len(part) - 1) = part

(* the line of a category renders the first TopN entries of its list, in  *)
(* list order, and nothing else                                           *)
RendersFirstEntries(cat) ==
    LET line == LineAfter(HeadingOf(cat))
        shown == IF Len(PopularList(cat)) < TopN THEN Len(PopularList(cat)) ELSE TopN
    IN  /\ Cardinality(Closes(line)) = shown
        /\ \A k \in 1..shown :
              Contains(RenderedEntry(line, k), PopularList(cat)[k][1])

(* every rendered entry names the listeners of its item *)
ShowsListenerNames(cat) ==
    LET line == LineAfter(HeadingOf(cat))
    IN  \A k \in 1..Cardinality(Closes(line)) :
            \A name \in ToSet(ListenerNames(cat, PopularList(cat)[k][1])) :
                \E i \in 1..Len(RenderedEntry(line, k)) :
                    RenderedEntry(line, k)[i] = name

(* the first TopN entries are the ones rendered, whatever the list length *)
AtMostTopNRendered ==
    Formatted =>
        \A cat \in Categories : PopularList(cat) # <<>> => RendersFirstEntries(cat)

(* ---------------------------------------------------------------------- *)
(* C15: at most 5 entries of each popular list are rendered, the first 5  *)
(* in list order, and each rendered entry shows the names of the item's   *)
(* listeners inline                                                       *)
(* ---------------------------------------------------------------------- *)
C15_TopFiveWithListenerNames ==
    /\ pc # "raised"
    /\ Formatted =>
          \A cat \in Categories :
              PopularList(cat) # <<>> =>
                  /\ RendersFirstEntries(cat)
                  /\ users # <<>> => ShowsListenerNames(cat)

(* ---------------------------------------------------------------------- *)
(* C16: in the text of format_summary_text the no-overlap sentence        *)
(* appears exactly when most_overlapping is None, the outlier line        *)
(* exactly when biggest_outlier is not None, the line of a popularity     *)
(* category exactly when its list is non-empty, and the hidden-gem line   *)
(* exactly when hidden_gem is not None                                    *)
(* ---------------------------------------------------------------------- *)
C16_LinesFollowFields ==
    Formatted =>
        /\ Occurs(NoOverlapLine[1]) <=> Result.most_overlapping = None
        /\ Occurs("** have the most in common (") <=> Result.most_overlapping # None
        /\ Occurs("** is the biggest outlier of the group.")
               <=> Result.biggest_outlier # None
        /\ \A cat \in Categories : Occurs(HeadingOf(cat)) <=> PopularList(cat) # <<>>
        /\ Occurs(":gem: hidden gem: **") <=> Result.hidden_gem # None

(* an outlier and albums, but no pair, no artists and no hidden gem *)
C16_Witness ==
    /\ Formatted
    /\ Result.most_overlapping = None
    /\ Result.biggest_outlier # None
    /\ Result.popular_artists = <<>>
    /\ Result.popular_albums # <<>>
    /\ Result.hidden_gem = None
    /\ Occurs(NoOverlapLine[1])
    /\ Occurs(AlbumsHeading)
    /\ ~Occurs(ArtistsHeading)

(* ---------------------------------------------------------------------- *)
(* C17: compute_group_summary raises for no list of profiles, whether the *)
(* containers are empty, the list has one profile, display names repeat   *)
(* or all scores tie; what is missing comes back as None or an empty list *)
(* ---------------------------------------------------------------------- *)
NoItems(u) == u.artists = <<>> /\ u.albums = <<>> /\ u.tracks = <<>>

NoPairNoOutlierNoPopular ==
    /\ Result.most_overlapping = None
    /\ Result.biggest_outlier = None
    /\ Result.popular_artists = <<>>
    /\ Result.popular_albums = <<>>
    /\ Result.popular_tracks = <<>>

C17_NeverRaises ==
    /\ pc # "raised"
    /\ Done =>
          /\ Len(users) <= 1 => NoPairNoOutlierNoPopular
          /\ (\A i \in 1..Len(users) : NoItems(users[i])) =>
                 NoPairNoOutlierNoPopular /\ Result.hidden_gem = None
          /\ Result.most_overlapping = None <=>
                 \A p \in UserPairs : PairTotal(p) = 0

(* three profiles, two under one display name and one without any item,  *)
(* the other two sharing something                                       *)
C17_Witness ==
    /\ Done
    /\ Len(users) = 3
    /\ users[1].display_name = users[2].display_name
    /\ NoItems(users[1])
    /\ PairTotal(<<2, 3>>) > 0
    /\ Result.most_overlapping # None

(* ---------------------------------------------------------------------- *)
(* C18: however the steps of concurrent invocations interleave, each      *)
(* invocation returns what it returns when it runs alone on its list      *)
(* ---------------------------------------------------------------------- *)
C18_InterleavingIndependent ==
    \A i \in 1..Len(calls) :
        calls[i].pc = "returned" =>
            calls[i].result = Some(compute_group_summary(calls[i].users))

(* the second invocation has returned while the first, on another list,   *)
(* is in the middle of its scan                                           *)
C18_Witness ==
    /\ Len(calls) = 2
    /\ calls[1].users # calls[2].users
    /\ calls[1].pc = "scan"
    /\ calls[1].idx = 2
    /\ calls[2].pc = "returned"
    /\ Len(calls[2].users) >= 2
    /\ calls[2].result = Some(compute_group_summary(calls[2].users))

(* ---------------------------------------------------------------------- *)
(* Vocabulary of the schedule properties                                  *)
(* ---------------------------------------------------------------------- *)
LastOp == last_op[1]

Saved == last_op # None /\ LastOp.op = "save"

Unsubscribed == last_op # None /\ LastOp.op = "delete"

SameKey(r, s) == r.lastfm_username = s.lastfm_username /\ r.guild_id = s.guild_id

(* ---------------------------------------------------------------------- *)
(* C19: after any sequence of saves and deletes the table holds at most   *)
(* one row per (lastfm_username, guild_id); a save for an existing key    *)
(* replaces the channel and the Discord user of that row, so the schedule *)
(* is returned for the new channel and no longer for another one          *)
(* ---------------------------------------------------------------------- *)
C19_UpsertKeepsOneRowPerKey ==
    /\ \A r, s \in weekly_schedules : SameKey(r, s) => r = s
    /\ Saved =>
          /\ LastOp.args \in get_weekly_schedules_for_channel(
                 weekly_schedules, LastOp.args.guild_id, LastOp.args.channel_id)
          /\ \A c \in ChannelIds \ {LastOp.args.channel_id} :
                 \A r \in get_weekly_schedules_for_channel(
                              weekly_schedules, LastOp.args.guild_id, c) :
                     r.lastfm_username # LastOp.args.lastfm_username
          /\ \A r \in weekly_schedules : ~SameKey(r, LastOp.args) => r \in LastOp.before
          /\ \A r \in LastOp.before : ~SameKey(r, LastOp.args) => r \in weekly_schedules

(* the key was stored for another channel and another Discord user *)
C19_Witness ==
    /\ Saved
    /\ \E r \in LastOp.before :
          /\ SameKey(r, LastOp.args)
          /\ r.channel_id # LastOp.args.channel_id
          /\ r.discord_user_id # LastOp.args.discord_user_id
          /\ r \notin weekly_schedules
    /\ LastOp.args \in weekly_schedules
    /\ Cardinality(weekly_schedules) = Cardinality(LastOp.before)

(* ---------------------------------------------------------------------- *)
(* C20: delete_weekly_schedule(discord_user_id, guild_id) returns True    *)
(* exactly when a stored schedule had that user and guild; afterwards no  *)
(* query returns such a schedule, the guild is still listed only through  *)
(* other schedules, and the schedules of other users or guilds are kept   *)
(* ---------------------------------------------------------------------- *)
Targeted(r) ==
    /\ r.discord_user_id = LastOp.args.discord_user_id
    /\ r.guild_id = LastOp.args.guild_id

C20_DeleteRemovesUserInGuild ==
    Unsubscribed =>
        /\ LastOp.returned = Some(\E r \in LastOp.before : Targeted(r))
        /\ \A g \in GuildIds, c \in ChannelIds :
               \A r \in get_weekly_schedules_for_channel(weekly_schedules, g, c) :
                   ~Targeted(r)
        /\ \A r \in get_all_weekly_schedules(weekly_schedules) : ~Targeted(r)
        /\ \A g \in GuildIds :
               g \in get_scheduled_guild_ids(weekly_schedules)
                   <=> \E r \in LastOp.before : r.guild_id = g /\ ~Targeted(r)
        /\ \A r \in LastOp.before : ~Targeted(r) => r \in weekly_schedules
        /\ weekly_schedules \subseteq LastOp.before

(* two schedules of the user in the guild are removed; a schedule of the  *)
(* user in another guild and a schedule of another user are kept          *)
C20_Witness ==
    /\ Unsubscribed
    /\ LastOp.returned = Some(TRUE)
    /\ Cardinality({r \in LastOp.before : Targeted(r)}) = 2
    /\ \E r \in weekly_schedules :
          r.discord_user_id = LastOp.args.discord_user_id
    /\ \E r \in weekly_schedules :
          r.discord_user_id # LastOp.args.discord_user_id

(* ---------------------------------------------------------------------- *)
(* Vocabulary of the fetch properties                                     *)
(* ---------------------------------------------------------------------- *)
FinishedFetches == {lastfm.finished[i] : i \in 1..Len(lastfm.finished)}

LastAttempt(c) == c.attempts[Len(c.attempts)]

GotJson(e) == e.kind = "response" /\ e.status = 200 /\ e.is_json

ListKeys(fn) ==
    IF fn = "fetch_top_tracks" THEN <<"toptracks", "track">> ELSE <<"topalbums", "album">>

(* the body has the list the function asks for, with complete items *)
Validates(fn, body) ==
    /\ ListKeys(fn)[1] \in DOMAIN body
    /\ \A i \in 1..Len(body[ListKeys(fn)[1]][ListKeys(fn)[2]]) :
          /\ DOMAIN body[ListKeys(fn)[1]][ListKeys(fn)[2]][i]
                 = {"name", "artist", "@attr", "playcount"}

(* ---------------------------------------------------------------------- *)
(* C21: a fetch ends by raising LastFmError, by returning None or by      *)
(* returning the parsed model: a 200 body with an 'error' key raises      *)
(* LastFmError with that code, a non-200 status returns None, and a 200   *)
(* body without 'error' that validates returns the parsed model           *)
(* ---------------------------------------------------------------------- *)
C21_FetchOutcomes ==
    \A c \in FinishedFetches :
        LET e == LastAttempt(c)
        IN  /\ c.outcome.kind = "raise" =>
                  /\ c.outcome.exc = "LastFmError"
                  /\ GotJson(e) /\ "error" \in DOMAIN e.body
            /\ GotJson(e) /\ "error" \in DOMAIN e.body =>
                  /\ c.outcome.kind = "raise"
                  /\ c.outcome.exc = "LastFmError"
                  /\ c.outcome.code = e.body.error
            /\ e.kind = "response" /\ e.status # 200 =>
                  c.outcome.kind = "return" /\ c.outcome.value = None
            /\ GotJson(e) /\ "error" \notin DOMAIN e.body /\ Validates(c.fn, e.body) =>
                  /\ c.outcome.kind = "return"
                  /\ c.outcome.value # None
                  /\ Len(c.outcome.value[1])
                         = Len(e.body[ListKeys(c.fn)[1]][ListKeys(c.fn)[2]])
                  /\ \A i \in 1..Len(c.outcome.value[1]) :
                         /\ c.outcome.value[1][i].name
                                = e.body[ListKeys(c.fn)[1]][ListKeys(c.fn)[2]][i].name
                         /\ c.outcome.value[1][i].artist
                                = e.body[ListKeys(c.fn)[1]][ListKeys(c.fn)[2]][i].artist.name

(* one fetch raised error 6, the other got an error body under status    *)
(* 500 and returned None                                                  *)
C21_Witness ==
    /\ Len(lastfm.finished) = 2
    /\ lastfm.finished[1].outcome.kind = "raise"
    /\ lastfm.finished[1].outcome.code = 6
    /\ LastAttempt(lastfm.finished[2]).status = 500
    /\ "error" \in DOMAIN LastAttempt(lastfm.finished[2]).body
    /\ lastfm.finished[2].outcome = Return(None)

(* ---------------------------------------------------------------------- *)
(* C26: a fetch whose request fails with aiohttp.ClientError is retried   *)
(* and gives up only after 3 attempts in total                            *)
(* ---------------------------------------------------------------------- *)
C26_ClientErrorIsRetried ==
    \A c \in FinishedFetches :
        (\A i \in 1..Len(c.attempts) : c.attempts[i].kind = "client_error")
            => Len(c.attempts) = StopAfterAttempt

(* ---------------------------------------------------------------------- *)
(* C22: determine_dynamic_grid_size returns (1, 1) for no albums and      *)
(* otherwise the last grid of the longest prefix of DYNAMIC_GRID_SIZES in *)
(* which every grid has at most len(albums) slots and, from the second    *)
(* grid on, the album right after the previous grid's slots was played at *)
(* least 2 times, or 3 times for a grid of more than 16 slots; the result *)
(* then has no more slots than there are albums                           *)
(* ---------------------------------------------------------------------- *)
Slots(k) == DYNAMIC_GRID_SIZES[k][1] * DYNAMIC_GRID_SIZES[k][2]

GridFits(albums, k) ==
    /\ Len(albums) >= Slots(k)
    /\ k > 1 => albums[Slots(k - 1) + 1].playcount >= (IF Slots(k) > 16 THEN 3 ELSE 2)

PrefixFits(albums, k) == \A j \in 1..k : GridFits(albums, j)

LongestPrefix(albums) ==
    CHOOSE k \in 0..Len(DYNAMIC_GRID_SIZES) :
        /\ PrefixFits(albums, k)
        /\ \A m \in (k + 1)..Len(DYNAMIC_GRID_SIZES) : ~PrefixFits(albums, m)

C22_GridIsLongestFittingPrefix ==
    \A i \in 1..Len(grid) :
        IF grid[i].albums = <<>>
        THEN grid[i].result = <<1, 1>>
        ELSE /\ LongestPrefix(grid[i].albums) >= 1
             /\ grid[i].result = DYNAMIC_GRID_SIZES[LongestPrefix(grid[i].albums)]
             /\ grid[i].result[1] * grid[i].result[2] <= Len(grid[i].albums)

(* 20 albums or more, but the 17th was played only twice: (4, 4) *)
C22_Witness ==
    /\ Len(grid) = 1
    /\ Len(grid[1].albums) >= 20
    /\ grid[1].albums[17].playcount = 2
    /\ grid[1].result = <<4, 4>>

(* ---------------------------------------------------------------------- *)
(* C23: however joins and unsubscribes of several users in one guild      *)
(* interleave, a user whose last own command was a successful join still  *)
(* owns a row of the guild, so that their next unsubscribe returns True   *)
(* ---------------------------------------------------------------------- *)
C23_JoinedUserKeepsSubscription ==
    \A u \in DiscordUserIds :
        own.last[u] = [op |-> "join", ok |-> TRUE] =>
            /\ \E r \in weekly_schedules :
                   r.discord_user_id = u /\ r.guild_id = JoinGuild
            /\ delete_weekly_schedule(weekly_schedules, u, JoinGuild)

(* ---------------------------------------------------------------------- *)
(* The weekly run of one channel                                          *)
(* ---------------------------------------------------------------------- *)
(* the run is over: it returned early, finished, or left with the         *)
(* exception of the summary send                                          *)
PostOver == post.pc \in {"returned", "done", "raised"}

SummarySends == {k \in 1..Len(post.sends) : post.sends[k].kind = "summary"}

ProcessedWithoutRaising ==
    Cardinality({k \in 1..Len(post.outcomes) : post.outcomes[k] = "returned"})

(* C24: the 'Weekly Group Summary' embed is sent exactly when at least 2  *)
(* schedules of the channel were processed without raising; it is sent at *)
(* most once, as the last message and after every schedule was attempted; *)
(* a run whose guild or channel is not resolved sends nothing             *)
C24_SummaryIffTwoProcessed ==
    /\ Cardinality(SummarySends) <= 1
    /\ \A k \in SummarySends :
          /\ k = Len(post.sends)
          /\ post.attempted = post.schedules
          /\ ProcessedWithoutRaising >= 2
          /\ post.sends[k].footer = ProcessedWithoutRaising
    /\ post.pc \in {"done", "raised"} =>
          /\ post.attempted = post.schedules
          /\ (SummarySends # {}) <=> (ProcessedWithoutRaising >= 2)
    /\ post.pc = "returned" => post.sends = <<>> /\ post.attempted = <<>>

C24_Witness ==
    /\ post.pc = "done"
    /\ Len(post.schedules) = 3
    /\ ProcessedWithoutRaising = 2
    /\ SummarySends # {}
    /\ \E k \in 1..Len(post.sends) : post.sends[k].kind = "collage"

(* C25: an exception of one schedule stays with that schedule: the        *)
(* schedules are attempted one after the other in list order, none is     *)
(* skipped after a failure, the run reaches the end of the list, and the  *)
(* listening data are those of exactly the schedules that did not raise   *)
C25_ExceptionConfinedToSchedule ==
    /\ post.attempted = SubSeq(post.schedules, 1, Len(post.attempted))
    /\ Len(post.outcomes) = Len(post.attempted)
    /\ post.pc \in {"done", "raised"} => post.attempted = post.schedules
    /\ Len(post.user_data_list) = ProcessedWithoutRaising
    /\ \A n \in 1..Len(post.outcomes) :
          post.outcomes[n] = "returned" <=>
             \E k \in 1..Len(post.user_data_list) :
                post.user_data_list[k].display_name \in
                    {post.schedules[n], MemberDisplayName[post.schedules[n]]}
    /\ \A k, l \in 1..Len(post.user_data_list) :
          k < l =>
             \E m, n \in 1..Len(post.attempted) :
                /\ m < n
                /\ post.user_data_list[k].display_name \in
                      {post.schedules[m], MemberDisplayName[post.schedules[m]]}
                /\ post.user_data_list[l].display_name \in
                      {post.schedules[n], MemberDisplayName[post.schedules[n]]}

C25_Witness ==
    /\ post.pc = "done"
    /\ Len(post.schedules) = 3
    /\ post.outcomes = <<"returned", "raised", "returned">>
    /\ Len(post.user_data_list) = 2
    /\ SummarySends # {}

(* ---------------------------------------------------------------------- *)
(* download_album_images and the image cache                              *)
(* ---------------------------------------------------------------------- *)
DlStarted == dl.pc # "idle"

DlReturned == dl.pc = "returned"

HasImageUrl(i) == dl.albums[i].image_url # None

(* what the cache held for the url of album i when the call began *)
EntryAtStart(i) == dl.redis0[_cache_key(dl.albums[i].image_url)].value

CachedImageAtStart(i) ==
    /\ dl.cache /\ dl.mget_ok
    /\ EntryAtStart(i) = <<"rgb">> \o dl.albums[i].image_url

NegativeAtStart(i) ==
    dl.cache /\ dl.mget_ok /\ EntryAtStart(i) = _NEGATIVE_SENTINEL

LookupMissed(i) == dl.cache /\ (~dl.mget_ok \/ EntryAtStart(i) = None)

(* the positions of to_download that carry album i *)
DownloadsOf(i) == {n \in 1..Len(dl.to_download) : dl.to_download[n][1] = i}

(* C27: the result has one entry per album, at the album's index; an      *)
(* entry is an image only for an album with an image_url, and then it is  *)
(* the cached image of that url or the image its download gave; an album  *)
(* without image_url is neither looked up nor downloaded and stays None   *)
C27_ImagesAlignedWithAlbums ==
    DlStarted =>
       /\ Len(dl.images) = Len(dl.albums)
       /\ Len(dl.looked_up) =
             IF dl.cache
             THEN Cardinality({i \in 1..Len(dl.albums) : HasImageUrl(i)}) ELSE 0
       /\ None \notin {dl.looked_up[n] : n \in 1..Len(dl.looked_up)}
       /\ \A i \in 1..Len(dl.albums) :
             /\ ~HasImageUrl(i) => dl.images[i] = None /\ DownloadsOf(i) = {}
             /\ dl.images[i] # None =>
                   /\ HasImageUrl(i)
                   /\ dl.images[i] = <<"image">> \o dl.albums[i].image_url
                   /\ \/ CachedImageAtStart(i)
                      \/ \E n \in DownloadsOf(i) :
                            /\ n < dl.k
                            /\ dl.to_download[n][2] = dl.albums[i].image_url
                            /\ dl.downloaded[n] = dl.images[i]
             /\ DlReturned =>
                   \A n \in DownloadsOf(i) : dl.images[i] = dl.downloaded[n]

C27_Witness ==
    /\ DlReturned
    /\ dl.cache
    /\ Len(dl.albums) = 3
    /\ ~HasImageUrl(1) /\ dl.images[1] = None
    /\ HasImageUrl(2) /\ CachedImageAtStart(2) /\ dl.images[2] # None
    /\ HasImageUrl(3) /\ LookupMissed(3) /\ dl.images[3] # None /\ DownloadsOf(3) # {}

(* the entry that the puts so far leave under the key of an url *)
RECURSIVE AfterPuts(_, _)
AfterPuts(url, n) ==
    IF n = 0 THEN dl.redis0[_cache_key(url)]
    ELSE IF dl.puts[n].url = url /\ dl.puts[n].ok
    THEN [value |-> dl.puts[n].value, ttl |-> dl.puts[n].ttl]
    ELSE AfterPuts(url, n - 1)

(* C28: with a cache, the urls downloaded are exactly the looked up urls  *)
(* that were misses (all of them when MGET fails); a negative entry and a *)
(* cached image are not downloaded; every download result is put back,    *)
(* an image for 29 days and a failure as the negative sentinel for 6      *)
(* hours, and a failing SET changes nothing and does not stop the call    *)
C28_DownloadIffMissAndWriteBack ==
    (DlStarted /\ dl.cache) =>
       /\ \A i \in 1..Len(dl.albums) :
             /\ Cardinality(DownloadsOf(i)) <= 1
             /\ DownloadsOf(i) # {} <=> (HasImageUrl(i) /\ LookupMissed(i))
             /\ (HasImageUrl(i) /\ (NegativeAtStart(i) \/ CachedImageAtStart(i)))
                   => DownloadsOf(i) = {}
             /\ \A n \in DownloadsOf(i) : dl.to_download[n][2] = dl.albums[i].image_url
       /\ \A m, n \in 1..Len(dl.to_download) :
             m < n => dl.to_download[m][1] < dl.to_download[n][1]
       /\ Len(dl.downloaded) <= Len(dl.to_download)
       /\ Len(dl.puts) = dl.k - 1
       /\ DlReturned => /\ Len(dl.downloaded) = Len(dl.to_download)
                        /\ Len(dl.puts) = Len(dl.to_download)
       /\ \A n \in 1..Len(dl.puts) :
             /\ dl.puts[n].url = dl.to_download[n][2]
             /\ IF dl.downloaded[n] # None
                THEN /\ dl.puts[n].value = <<"rgb">> \o dl.puts[n].url
                     /\ dl.puts[n].ttl = 29 * 24 * 60 * 60
                ELSE /\ dl.puts[n].value = <<"MISS">>
                     /\ dl.puts[n].ttl = 6 * 60 * 60
       /\ \A u \in ImageUrls : dl.redis[_cache_key(u)] = AfterPuts(u, Len(dl.puts))

C28_Witness ==
    /\ DlReturned
    /\ dl.cache /\ dl.mget_ok
    /\ Len(dl.albums) = 3
    /\ HasImageUrl(1) /\ NegativeAtStart(1) /\ DownloadsOf(1) = {}
    /\ HasImageUrl(2) /\ LookupMissed(2) /\ DownloadsOf(2) # {}
    /\ HasImageUrl(3) /\ dl.albums[3].image_url = dl.albums[2].image_url
    /\ Len(dl.puts) = 2
    /\ ~dl.puts[1].ok /\ dl.downloaded[1] # None
    /\ dl.puts[2].ok /\ dl.downloaded[2] = None
    /\ dl.redis[_cache_key(dl.albums[2].image_url)].value = <<"MISS">>

(* ---------------------------------------------------------------------- *)
(* Ties at the minimum score                                              *)
(* ---------------------------------------------------------------------- *)
MinProfiles ==
    {i \in 1..Len(users) : \A j \in 1..Len(users) : ProfileScore(i) <= ProfileScore(j)}

FirstMinProfile == CHOOSE i \in MinProfiles : \A j \in MinProfiles : i <= j

SeveralNamesAtMinimum ==
    \E i, j \in MinProfiles : users[i].display_name # users[j].display_name

DistinctDisplayNames ==
    \A i, j \in 1..Len(users) : i # j => users[i].display_name # users[j].display_name

(* C29: with N >= 2 profiles whose accumulated scores are not all equal   *)
(* and with several display names at the minimum score, biggest_outlier   *)
(* is the display name among them whose profile comes first in the list   *)
C29_FirstOfTiedMinimum ==
    (Done /\ Len(users) >= 2 /\ ~AllProfileScoresEqual /\ SeveralNamesAtMinimum)
        => Result.biggest_outlier = Some(users[FirstMinProfile].display_name)

(* the same with display names that are all different *)
FirstOfTiedMinimumForDistinctNames ==
    DistinctDisplayNames => C29_FirstOfTiedMinimum

TiedMinimumReached ==
    /\ Done /\ Len(users) >= 2 /\ ~AllProfileScoresEqual /\ SeveralNamesAtMinimum
    /\ DistinctDisplayNames
    /\ FirstMinProfile > 1

(* ---------------------------------------------------------------------- *)
(* Successive calls on one profile list                                   *)
(* ---------------------------------------------------------------------- *)
Invocation(k) == frame.invocations[k]

(* what the k-th call returns when it is the only call ever made on the   *)
(* list the caller built                                                  *)
FreshValue(k) ==
    CASE Invocation(k).fn = "compute_pair_overlap" ->
             compute_pair_overlap(frame.before[Invocation(k).args[1]],
                                  frame.before[Invocation(k).args[2]])
      [] Invocation(k).fn = "compute_group_summary" ->
             compute_group_summary(frame.before)
      [] OTHER -> format_summary_text(compute_group_summary(frame.before))

(* C30: after any sequence of calls of compute_pair_overlap,              *)
(* compute_group_summary and format_summary_text the profile list has the *)
(* same profiles in the same order, each with the display_name, artists,  *)
(* albums and tracks it had; the summary given to the formatter is as it  *)
(* was returned; and every call returns what it returns as a first call   *)
C30_InputsUnchanged ==
    /\ Len(frame.users) = Len(frame.before)
    /\ \A i \in 1..Len(frame.users) :
          /\ frame.users[i].display_name = frame.before[i].display_name
          /\ frame.users[i].artists = frame.before[i].artists
          /\ frame.users[i].albums = frame.before[i].albums
          /\ frame.users[i].tracks = frame.before[i].tracks
    /\ frame.summary = frame.returned
    /\ \A k \in 1..Len(frame.invocations) : Invocation(k).value = FreshValue(k)

C30_Witness ==
    /\ Len(frame.invocations) = 2
    /\ Invocation(1).fn = "compute_pair_overlap"
    /\ Invocation(2).fn = "compute_group_summary"
    /\ Len(frame.before) = 2
    /\ frame.before[1].artists = <<TA, TB>>
    /\ frame.before[2].artists = <<TA>>
    /\ Invocation(1).value.shared_artists = {TA}
    /\ frame.users[1].artists = <<TA, TB>>

====
